---- MODULE Spec2Model ----
(***************************************************************************)
(* Comparison and aggregation engine of the cataloger evaluation tools.    *)
(*                                                                         *)
(* Strings are sequences of one-character strings (Go strings are byte     *)
(* sequences and every character used here is one byte).  Scores are exact *)
(* rationals [n |-> numerator, d |-> denominator] in lowest terms; the Go  *)
(* code computes them in float64.                                          *)
(***************************************************************************)
EXTENDS Integers, Sequences, FiniteSets, TLC

(***************************************************************************)
(* Bounds of the model.                                                    *)
(***************************************************************************)
MaxStrLen == 3
MaxFields == 2
MaxResults == 3
MaxItems == 3
MaxConcurrency == 2
MaxAppends == 3
MaxBatch == 2

(***************************************************************************)
(* Exact rational arithmetic for float64 scores.                           *)
(***************************************************************************)
RECURSIVE GCD(_, _)
GCD(a, b) == IF b = 0 THEN a ELSE GCD(b, a % b)

Abs(x) == IF x < 0 THEN -x ELSE x

Rat(n, d) ==
    LET g == GCD(Abs(n), Abs(d))
        s == IF d < 0 THEN -1 ELSE 1
    IN  [n |-> (s * n) \div g, d |-> (s * d) \div g]

RAdd(a, b) == Rat(a.n * b.d + b.n * a.d, a.d * b.d)
RMul(a, b) == Rat(a.n * b.n, a.d * b.d)
RDiv(a, b) == Rat(a.n * b.d, a.d * b.n)
RLt(a, b) == a.n * b.d < b.n * a.d
RLe(a, b) == a.n * b.d <= b.n * a.d
RGt(a, b) == RLt(b, a)

Zero == Rat(0, 1)
One == Rat(1, 1)
Half == Rat(1, 2)
InUnit(r) == RLe(Zero, r) /\ RLe(r, One)

(***************************************************************************)
(* Characters and the Go string helpers the comparators use.               *)
(***************************************************************************)
Alphabet == {"x", "1", " ", "-"}

IsSpace(c) == c \in {" "}
IsWord(c) == c \in {"x", "X", "1", "a", "c", "_"}

ToLowerChar(c) == IF c = "X" THEN "x" ELSE c
ToLower(s) == [i \in 1..Len(s) |-> ToLowerChar(s[i])]

RECURSIVE TrimLeft(_)
TrimLeft(s) == IF s # <<>> /\ IsSpace(Head(s)) THEN TrimLeft(Tail(s)) ELSE s

RECURSIVE TrimRight(_)
TrimRight(s) ==
    IF s # <<>> /\ IsSpace(s[Len(s)]) THEN TrimRight(SubSeq(s, 1, Len(s) - 1)) ELSE s

TrimSpace(s) == TrimRight(TrimLeft(s))

\* strings.Fields: the maximal runs of non-space characters, in order.
RECURSIVE Fields(_, _, _)
Fields(s, word, acc) ==
    IF s = <<>>
    THEN IF word = <<>> THEN acc ELSE Append(acc, word)
    ELSE IF IsSpace(Head(s))
         THEN Fields(Tail(s), <<>>, IF word = <<>> THEN acc ELSE Append(acc, word))
         ELSE Fields(Tail(s), Append(word, Head(s)), acc)

RECURSIVE Join(_, _)
Join(parts, sep) ==
    IF parts = <<>> THEN <<>>
    ELSE IF Len(parts) = 1 THEN parts[1]
    ELSE parts[1] \o sep \o Join(Tail(parts), sep)

\* strings.HasPrefix in the place of strings.Contains
Contains_prefixOnly(s, sub) ==
    Len(sub) <= Len(s) /\ SubSeq(s, 1, Len(sub)) = sub

\* strings.Contains(s, sub)
Contains(s, sub) ==
    \E i \in 0..(Len(s) - Len(sub)) : SubSeq(s, i + 1, i + Len(sub)) = sub

\* regexp `[^\w\s]` replaced by "": only word characters and whitespace stay.
RECURSIVE StripPunct(_)
StripPunct(s) ==
    IF s = <<>> THEN <<>>
    ELSE IF IsWord(Head(s)) \/ IsSpace(Head(s))
         THEN <<Head(s)>> \o StripPunct(Tail(s))
         ELSE StripPunct(Tail(s))

\* normalizeForComparison without the removal of punctuation
normalize_keepPunctuation(text) ==
    TrimSpace(Join(Fields(ToLower(text), <<>>, <<>>), <<" ">>))

\* metrics.normalizeForComparison
normalizeForComparison(text) ==
    TrimSpace(Join(Fields(StripPunct(ToLower(text)), <<>>, <<>>), <<" ">>))

\* normalizeText without the removal of punctuation
normalizeText_keepPunctuation(text) ==
    TrimSpace(Join(Fields(ToLower(text), <<>>, <<>>), <<" ">>))

\* metadata.normalizeText: whitespace is collapsed before punctuation goes.
normalizeText(text) ==
    TrimSpace(StripPunct(Join(Fields(ToLower(text), <<>>, <<>>), <<" ">>)))

(***************************************************************************)
(* Levenshtein distance: the dynamic-programming matrix, row by row.       *)
(***************************************************************************)
min(a, b) == IF a < b THEN a ELSE b

\* row i of the matrix from row i-1 (`prev`); a row holds matrix[i][0..len(s2)]
\* at the indices 1..len(s2)+1, and `cur` is the part of row i filled so far
RECURSIVE FillRow(_, _, _, _)
FillRow(prev, cur, c, s2) ==
    IF Len(cur) = Len(s2) + 1 THEN cur
    ELSE LET j == Len(cur)
             cost == IF c = s2[j] THEN 0 ELSE 1
             deletion == prev[j + 1] + 1
             insertion == cur[j] + 1
             substitution == prev[j] + cost
         IN  FillRow(prev, Append(cur, min(deletion, min(insertion, substitution))),
                     c, s2)

\* the rows 0..len(s1) of the matrix; the distance is its last cell
RECURSIVE FillMatrix(_, _, _)
FillMatrix(matrix, s1, s2) ==
    IF Len(matrix) = Len(s1) + 1 THEN matrix[Len(s1) + 1][Len(s2) + 1]
    ELSE LET i == Len(matrix)
         IN  FillMatrix(Append(matrix, FillRow(matrix[i], <<i>>, s1[i], s2)), s1, s2)

\* the first row of the matrix: matrix[0][j] = j
FirstRow(s2) == [j \in 1..(Len(s2) + 1) |-> j - 1]

\* metrics.levenshteinDistance
metrics_levenshteinDistance(s1, s2) ==
    IF s1 = s2 THEN 0
    ELSE IF Len(s1) = 0 THEN Len(s2)
    ELSE IF Len(s2) = 0 THEN Len(s1)
    ELSE FillMatrix(<<FirstRow(s2)>>, s1, s2)

\* metadata.levenshteinDistance
metadata_levenshteinDistance(s1, s2) ==
    IF s1 = s2 THEN 0
    ELSE IF Len(s1) = 0 THEN Len(s2)
    ELSE IF Len(s2) = 0 THEN Len(s1)
    ELSE FillMatrix(<<FirstRow(s2)>>, s1, s2)

\* calculateSimilarity dividing by the length of its first argument
calculateSimilarity_lenOfFirst(s1, s2) ==
    IF s1 = s2 THEN One
    ELSE IF Len(s1) = 0 \/ Len(s2) = 0 THEN Zero
    ELSE LET distance == metrics_levenshteinDistance(s1, s2)
             maxLen == Len(s1)
         IN  Rat(maxLen - distance, maxLen)

\* metrics.calculateSimilarity
calculateSimilarity(s1, s2) ==
    IF s1 = s2 THEN One
    ELSE IF Len(s1) = 0 \/ Len(s2) = 0 THEN Zero
    ELSE LET distance == metrics_levenshteinDistance(s1, s2)
             maxLen == IF Len(s2) > Len(s1) THEN Len(s2) ELSE Len(s1)
         IN  Rat(maxLen - distance, maxLen)

\* the number of positions below minLen at which s1 and s2 agree
Matches(s1, s2, minLen) == Cardinality({i \in 1..minLen : s1[i] = s2[i]})

\* the calculateSimilarity of the earlier marc_compare.go of package metrics:
\* matching character positions over the longer length
positional_calculateSimilarity(s1, s2) ==
    IF s1 = s2 THEN One
    ELSE IF Len(s1) = 0 \/ Len(s2) = 0 THEN Zero
    ELSE LET minLen == IF Len(s2) < Len(s1) THEN Len(s2) ELSE Len(s1)
             maxLen == IF Len(s2) > Len(s1) THEN Len(s2) ELSE Len(s1)
         IN  Rat(Matches(s1, s2, minLen), maxLen)

(***************************************************************************)
(* metrics.compareField                                                    *)
(***************************************************************************)
\* compareField without its both-empty case: an empty pair falls through to
\* the test of the expected value alone
compareField_noBothMissing(expected, actual) ==
    LET expNorm == normalizeForComparison(expected)
        actNorm == normalizeForComparison(actual)
        match(score, method) ==
            [Expected |-> expected, Actual |-> actual, Score |-> score, Method |-> method]
    IN  IF expected = <<>> THEN match(Zero, "expected_missing")
        ELSE IF actual = <<>> THEN match(Zero, "actual_missing")
        ELSE IF expNorm = actNorm THEN match(One, "exact")
        ELSE IF Contains(actNorm, expNorm) \/ Contains(expNorm, actNorm)
             THEN match(Rat(4, 5), "substring")
        ELSE LET similarity == calculateSimilarity(expNorm, actNorm)
             IN  IF RGt(similarity, Rat(7, 10)) THEN match(similarity, "fuzzy_high")
                 ELSE IF RGt(similarity, Rat(2, 5)) THEN match(similarity, "fuzzy_medium")
                 ELSE match(similarity, "no_match")

metrics_compareField(expected, actual) ==
    LET expNorm == normalizeForComparison(expected)
        actNorm == normalizeForComparison(actual)
        match(score, method) ==
            [Expected |-> expected, Actual |-> actual, Score |-> score, Method |-> method]
    IN  IF expected = <<>> /\ actual = <<>> THEN match(Half, "both_missing")
        ELSE IF expected = <<>> THEN match(Zero, "expected_missing")
        ELSE IF actual = <<>> THEN match(Zero, "actual_missing")
        ELSE IF expNorm = actNorm THEN match(One, "exact")
        ELSE IF Contains(actNorm, expNorm) \/ Contains(expNorm, actNorm)
             THEN match(Rat(4, 5), "substring")
        ELSE LET similarity == calculateSimilarity(expNorm, actNorm)
             IN  IF RGt(similarity, Rat(7, 10)) THEN match(similarity, "fuzzy_high")
                 ELSE IF RGt(similarity, Rat(2, 5)) THEN match(similarity, "fuzzy_medium")
                 ELSE match(similarity, "no_match")

(***************************************************************************)
(* metadata.compareField                                                   *)
(***************************************************************************)
metadata_compareField(fieldName, expected, actual) ==
    LET expNorm == normalizeText(expected)
        actNorm == normalizeText(actual)
        comp(score, distance, m) ==
            [FieldName |-> fieldName, Expected |-> expected, Actual |-> actual,
             Score |-> score, Distance |-> distance, Match |-> m]
    IN  IF expNorm = <<>> /\ actNorm = <<>> THEN comp(Half, 0, "both_empty")
        ELSE IF expNorm = <<>> THEN comp(Zero, Len(actNorm), "no_reference")
        ELSE IF actNorm = <<>> THEN comp(Zero, Len(expNorm), "missing")
        ELSE LET distance == metadata_levenshteinDistance(expNorm, actNorm)
                 maxLen == IF Len(expNorm) > Len(actNorm) THEN Len(expNorm) ELSE Len(actNorm)
                 similarity == Rat(maxLen - distance, maxLen)
             IN  IF expNorm = actNorm THEN comp(One, distance, "exact")
                 ELSE IF RGt(similarity, Rat(9, 10)) THEN comp(similarity, distance, "fuzzy_high")
                 ELSE IF RGt(similarity, Rat(7, 10)) THEN comp(similarity, distance, "fuzzy_medium")
                 ELSE IF RGt(similarity, Rat(1, 2)) THEN comp(similarity, distance, "fuzzy_low")
                 ELSE comp(similarity, distance, "no_match")

(***************************************************************************)
(* Input strings: every string over Alphabet up to a length, and samples   *)
(* that reach the similarity bands and the upper-case path.                *)
(***************************************************************************)
RECURSIVE StringsUpTo(_)
StringsUpTo(n) ==
    IF n = 0 THEN {<<>>}
    ELSE LET shorter == StringsUpTo(n - 1)
         IN  shorter \cup {Append(s, c) : s \in shorter, c \in Alphabet}

Rep(c, n) == [i \in 1..n |-> c]

Samples ==
    { <<"X">>, <<"X", "-", "1">>,
      Rep("x", 4), Rep("x", 3) \o <<"1">>,
      Rep("x", 5), Rep("x", 4) \o <<"1">>, Rep("x", 2) \o Rep("1", 3),
      Rep("x", 6), Rep("x", 5) \o <<"1">>,
      Rep("x", 10), Rep("x", 9) \o <<"1">>, Rep("x", 7) \o Rep("1", 3),
      Rep("x", 11), Rep("x", 10) \o <<"1">>,
      <<"x", " ", "-", " ", "1">> }

InputStrings == StringsUpTo(MaxStrLen) \cup Samples

(***************************************************************************)
(* MARC records.  A record is a sequence of data fields, each a tag and an *)
(* ordered list of subfields <<code, value>>; a raw record whose bytes do  *)
(* not scan as MARC is BadMARC.  The mnemonic text of a record has one     *)
(* line per field, "=TAG  ind$cValue$cValue".                              *)
(***************************************************************************)
Sub(code, value) == [Code |-> code, Value |-> value]
DataField(tag, code, value) == [Tag |-> tag, SubFields |-> <<Sub(code, value)>>]

\* the fields the records of the record comparison are built from
FieldKinds ==
    { DataField("245", "a", v) : v \in {Rep("x", 9), Rep("x", 8) \o <<"1">>,
                                         Rep("x", 4) \o Rep("1", 5)} }
    \cup { DataField("650", "a", <<"x">>), DataField("500", "a", <<"x">>) }

\* the lines the generated text of CompareMARCFields is built from
LineKinds ==
    { DataField("245", "a", v) : v \in {Rep("x", 5), Rep("x", 4) \o <<"1">>} }
    \cup { DataField("020", "a", v) : v \in {<<"1", "-", "1">>, <<"1", "1">>} }
    \cup { DataField("260", "c", <<"1">>), DataField("650", "a", <<"x">>) }

RECURSIVE FieldSeqsUpTo(_, _)
FieldSeqsUpTo(kinds, n) ==
    IF n = 0 THEN {<<>>}
    ELSE LET shorter == FieldSeqsUpTo(kinds, n - 1)
         IN  shorter \cup {Append(r, f) : r \in shorter, f \in kinds}

BadMARC == [valid |-> FALSE, Fields |-> <<>>]
RawRecords == {[valid |-> TRUE, Fields |-> r] : r \in FieldSeqsUpTo(FieldKinds, MaxFields)}
              \cup {BadMARC}
MARCTexts == {[valid |-> TRUE, Fields |-> r] : r \in FieldSeqsUpTo(LineKinds, MaxFields)}

TagsOf(fields) == {fields[i].Tag : i \in 1..Len(fields)}

\* the sum of the rationals f[e] over e in S
RECURSIVE RSum(_, _)
RSum(S, f) ==
    IF S = {} THEN Zero
    ELSE LET e == CHOOSE x \in S : TRUE IN RAdd(f[e], RSum(S \ {e}, f))

(***************************************************************************)
(* package metrics: the mnemonic-text parsers                              *)
(***************************************************************************)
RECURSIVE SubfieldText(_)
SubfieldText(subs) ==
    IF subs = <<>> THEN <<>>
    ELSE <<"$", Head(subs).Code>> \o Head(subs).Value \o SubfieldText(Tail(subs))

\* parseMARCFields: regexp `^=?(\d{3})\s+[^\$]*(\$.*)$` on every line; a later
\* line of the same tag overwrites the entry of an earlier one
RECURSIVE parseMARCFields(_, _)
parseMARCFields(lines, fields) ==
    IF lines = <<>> THEN fields
    ELSE LET tag == Head(lines).Tag
             value == TrimSpace(SubfieldText(Head(lines).SubFields))
         IN  parseMARCFields(Tail(lines),
                 [t \in (DOMAIN fields) \cup {tag} |->
                     IF t = tag THEN value ELSE fields[t]])

HasCode(line, code) == \E k \in 1..Len(line.SubFields) : line.SubFields[k].Code = code

FirstValue(line, code) ==
    LET k == CHOOSE k \in 1..Len(line.SubFields) :
                 /\ line.SubFields[k].Code = code
                 /\ \A m \in 1..(k - 1) : line.SubFields[m].Code # code
    IN  line.SubFields[k].Value

\* regexp `(?m)^=?TAG\s+.*?\$c\s*([^$\n]+)`: the captures, line by line, of
\* the lines of a tag in `tags` that hold a subfield `code` (subfield values
\* hold no "$", no newline and a non-space character)
MatchesOf(lines, tags, code) ==
    LET hits == SelectSeq(lines, LAMBDA l : l.Tag \in tags /\ HasCode(l, code))
    IN  [k \in 1..Len(hits) |-> TrimLeft(FirstValue(hits[k], code))]

RECURSIVE TrimRightSet(_, _)
TrimRightSet(s, cutset) ==
    IF s # <<>> /\ s[Len(s)] \in cutset
    THEN TrimRightSet(SubSeq(s, 1, Len(s) - 1), cutset) ELSE s

\* MARCParser.ExtractTitle
ExtractTitle(lines) ==
    LET matches == MatchesOf(lines, {"245"}, "a")
    IN  IF Len(matches) > 0
        THEN TrimRightSet(TrimSpace(matches[1]), {" ", "/", ":"})
        ELSE <<>>

\* MARCParser.ExtractAuthor
ExtractAuthor(lines) ==
    LET matches == MatchesOf(lines, {"100"}, "a")
    IN  IF Len(matches) > 0 THEN TrimSpace(matches[1]) ELSE <<>>

\* MARCParser.ExtractDate
ExtractDate(lines) ==
    LET matches == MatchesOf(lines, {"260", "264"}, "c")
    IN  IF Len(matches) > 0 THEN TrimSpace(matches[1]) ELSE <<>>

IsISBNChar(c) == c \in {"0", "1", "2", "3", "4", "5", "6", "7", "8", "9", "X", "x"}

\* MARCParser.ExtractISBN: everything outside [0-9Xx] is removed
ExtractISBN(lines) ==
    LET matches == MatchesOf(lines, {"020"}, "a")
    IN  IF Len(matches) > 0
        THEN SelectSeq(TrimSpace(matches[1]), IsISBNChar)
        ELSE <<>>

Digits == {"0", "1", "2", "3", "4", "5", "6", "7", "8", "9"}
SubjectTags == {"6" \o a \o b : a \in Digits, b \in Digits}

\* MARCParser.ExtractSubject: every 6XX heading, joined by "; "
ExtractSubject(lines) ==
    LET matches == MatchesOf(lines, SubjectTags, "a")
    IN  Join([k \in 1..Len(matches) |-> TrimSpace(matches[k])], <<";", " ">>)

(***************************************************************************)
(* metrics.CompareMARCFields                                               *)
(***************************************************************************)
MARCFieldWeights ==
    [title |-> Rat(30, 100), author |-> Rat(30, 100), date |-> Rat(20, 100),
     isbn |-> Rat(10, 100), subject |-> Rat(10, 100)]

CompareMARCFields(generatedMARC, expectedTitle, expectedAuthor, expectedDate, expectedISBN, expectedSubject) ==
    LET lines == generatedMARC.Fields
        TitleMatch == metrics_compareField(expectedTitle, ExtractTitle(lines))
        AuthorMatch == metrics_compareField(expectedAuthor, ExtractAuthor(lines))
        DateMatch == metrics_compareField(expectedDate, ExtractDate(lines))
        ISBNMatch == metrics_compareField(expectedISBN, ExtractISBN(lines))
        SubjectMatch == metrics_compareField(expectedSubject, ExtractSubject(lines))
        FieldLevelScores ==
            [title |-> TitleMatch.Score, author |-> AuthorMatch.Score,
             date |-> DateMatch.Score, isbn |-> ISBNMatch.Score,
             subject |-> SubjectMatch.Score]
        totalScore == RSum(DOMAIN MARCFieldWeights,
                           [f \in DOMAIN MARCFieldWeights |->
                               RMul(FieldLevelScores[f], MARCFieldWeights[f])])
    IN  [TitleMatch |-> TitleMatch, AuthorMatch |-> AuthorMatch,
         DateMatch |-> DateMatch, ISBNMatch |-> ISBNMatch,
         SubjectMatch |-> SubjectMatch, FieldLevelScores |-> FieldLevelScores,
         OverallScore |-> totalScore]

(***************************************************************************)
(* metrics.CompareMARCRecords                                              *)
(***************************************************************************)
\* the comparison of one tag with the thresholds of compareField, 0.7 and 0.4
ReferenceFieldMatch_compareFieldBands(refValue, exists, genValue) ==
    LET refNorm == normalizeForComparison(refValue)
        genNorm == normalizeForComparison(genValue)
        match(score, method) ==
            [Expected |-> refValue, Actual |-> genValue, Score |-> score,
             Method |-> method]
    IN  IF ~exists THEN match(Zero, "missing")
        ELSE IF refNorm = genNorm THEN match(One, "exact")
        ELSE LET similarity == calculateSimilarity(refNorm, genNorm)
             IN  IF RGt(similarity, Rat(7, 10)) THEN match(similarity, "fuzzy_high")
                 ELSE IF RGt(similarity, Rat(4, 10)) THEN match(similarity, "fuzzy_medium")
                 ELSE match(similarity, "no_match")

\* the comparison of one tag of the reference record
ReferenceFieldMatch(refValue, exists, genValue) ==
    LET refNorm == normalizeForComparison(refValue)
        genNorm == normalizeForComparison(genValue)
        match(score, method) ==
            [Expected |-> refValue, Actual |-> genValue, Score |-> score,
             Method |-> method]
    IN  IF ~exists THEN match(Zero, "missing")
        ELSE IF refNorm = genNorm THEN match(One, "exact")
        ELSE LET similarity == calculateSimilarity(refNorm, genNorm)
             IN  IF RGt(similarity, Rat(8, 10)) THEN match(similarity, "fuzzy_high")
                 ELSE IF RGt(similarity, Rat(5, 10)) THEN match(similarity, "fuzzy_medium")
                 ELSE match(similarity, "no_match")

\* fieldCount counting the tags of the reference only
fieldCount_referenceOnly(refFields, genFields) == Cardinality(DOMAIN refFields)

\* fieldCount at the end of CompareMARCRecords: one for every tag of the
\* reference and one for every tag only the generated record holds
fieldCount(refFields, genFields) ==
    Cardinality(DOMAIN refFields)
        + Cardinality((DOMAIN genFields) \ (DOMAIN refFields))

CompareMARCRecords(referenceMARC, generatedMARC) ==
    LET refFields == parseMARCFields(referenceMARC.Fields, <<>>)
        genFields == parseMARCFields(generatedMARC.Fields, <<>>)
        refTags == DOMAIN refFields
        extraTags == (DOMAIN genFields) \ refTags
        matchOf == [t \in refTags |->
                       ReferenceFieldMatch(refFields[t], t \in DOMAIN genFields,
                           IF t \in DOMAIN genFields THEN genFields[t] ELSE <<>>)]
        totalScore == RSum(refTags, [t \in refTags |-> matchOf[t].Score])
        count == fieldCount(refFields, genFields)
        compared == {t \in refTags : t \in DOMAIN genFields}
        distanceOf == [t \in compared |->
                          Rat(metrics_levenshteinDistance(
                                  normalizeForComparison(refFields[t]),
                                  normalizeForComparison(genFields[t])), 1)]
    IN  [Fields |-> [t \in refTags \cup extraTags |->
                        IF t \in refTags THEN matchOf[t]
                        ELSE [Expected |-> <<>>, Actual |-> genFields[t],
                              Score |-> Zero, Method |-> "extra"]],
         OverallScore |-> IF count > 0 THEN RDiv(totalScore, Rat(count, 1))
                          ELSE Zero,
         FieldsMatched |-> Cardinality({t \in refTags :
                               matchOf[t].Method \in {"exact", "fuzzy_high"}}),
         FieldsMissing |-> Cardinality({t \in refTags : matchOf[t].Method = "missing"}),
         FieldsIncorrect |-> Cardinality({t \in refTags :
                               matchOf[t].Method \in {"fuzzy_medium", "no_match"}}),
         LevenshteinTotal |-> RSum(compared, distanceOf).n,
         done |-> TRUE]

(***************************************************************************)
(* package evaluation: CompareRecords                                      *)
(***************************************************************************)
FW(tag, hundredths) == [Tag |-> tag, Weight |-> Rat(hundredths, 100)]

\* the initial value of the package variable DefaultFieldWeights
StandardFieldWeights ==
    << FW("020", 5), FW("100", 15), FW("110", 15), FW("245", 25), FW("250", 5),
       FW("260", 15), FW("264", 15), FW("300", 5), FW("650", 10), FW("700", 5) >>

\* parseMARCRecord: the first record of the bytes, or an error
parseMARCRecord(data) ==
    IF data.valid THEN [err |-> FALSE, Fields |-> data.Fields]
    ELSE [err |-> TRUE, Fields |-> <<>>]

\* groupFieldsByTag: tag -> the fields of that tag, in record order
groupFieldsByTag(fields) ==
    [t \in TagsOf(fields) |-> SelectSeq(fields, LAMBDA f : f.Tag = t)]

\* a map lookup that yields the empty slice for an absent key
Lookup(grouped, tag) == IF tag \in DOMAIN grouped THEN grouped[tag] ELSE <<>>

\* marc.Field.IsControlField: the tags 001-009 carry a bare value
IsControlField(field) ==
    field.Tag \in {"001", "002", "003", "004", "005", "006", "007", "008", "009"}

RECURSIVE SubfieldParts(_)
SubfieldParts(subs) ==
    IF subs = <<>> THEN <<>>
    ELSE << <<"$", Head(subs).Code, " ">> \o Head(subs).Value >>
         \o SubfieldParts(Tail(subs))

\* fieldToString: "$c value" of every subfield, joined by a space
fieldToString(field) ==
    IF IsControlField(field) THEN field.Value
    ELSE Join(SubfieldParts(field.SubFields), <<" ">>)

\* evaluation.levenshteinDistance
evaluation_levenshteinDistance(s1, s2) ==
    IF Len(s1) = 0 THEN Len(s2)
    ELSE IF Len(s2) = 0 THEN Len(s1)
    ELSE FillMatrix(<<FirstRow(s2)>>, s1, s2)

\* stringSimilarity without its lower-casing
stringSimilarity_noLower(a, b) ==
    LET s1 == TrimSpace(a)
        s2 == TrimSpace(b)
    IN  IF s1 = s2 THEN One
        ELSE LET distance == evaluation_levenshteinDistance(s1, s2)
                 maxLen == IF Len(s1) > Len(s2) THEN Len(s1) ELSE Len(s2)
             IN  IF maxLen = 0 THEN One ELSE Rat(maxLen - distance, maxLen)

\* stringSimilarity
stringSimilarity(a, b) ==
    LET s1 == ToLower(TrimSpace(a))
        s2 == ToLower(TrimSpace(b))
    IN  IF s1 = s2 THEN One
        ELSE LET distance == evaluation_levenshteinDistance(s1, s2)
                 maxLen == IF Len(s1) > Len(s2) THEN Len(s1) ELSE Len(s2)
             IN  IF maxLen = 0 THEN One ELSE Rat(maxLen - distance, maxLen)

\* compareFieldContent comparing the first occurrence of the reference with
\* the last occurrence of the generated record
compareFieldContent_lastGenerated(tag, refFields, genFields) ==
    LET refContent == fieldToString(refFields[1])
        genContent == fieldToString(genFields[Len(genFields)])
        similarity == stringSimilarity(refContent, genContent)
    IN  [score |-> similarity,
         diff |-> [Tag |-> tag, Reference |-> refContent, Generated |-> genContent,
                   Similarity |-> similarity]]

\* compareFieldContent: the first occurrences are compared and a diff is logged
compareFieldContent(tag, refFields, genFields) ==
    LET refContent == fieldToString(refFields[1])
        genContent == fieldToString(genFields[1])
        similarity == stringSimilarity(refContent, genContent)
    IN  [score |-> similarity,
         diff |-> [Tag |-> tag, Reference |-> refContent, Generated |-> genContent,
                   Similarity |-> similarity]]

NoComparisonResult ==
    [err |-> "", OverallScore |-> Zero, FieldScores |-> <<>>, MissingFields |-> <<>>,
     ExtraFields |-> <<>>, FieldDifferences |-> <<>>,
     totalWeight |-> Zero, weightedScore |-> Zero]

\* the iteration that logs the diff of a compared field only when its
\* similarity is below 0.8
CompareWeighted_gatedDiff(fw, refFields, genFields, r) ==
    LET refFieldData == Lookup(refFields, fw.Tag)
        genFieldData == Lookup(genFields, fw.Tag)
        r1 == [r EXCEPT !.totalWeight = RAdd(@, fw.Weight)]
        setScore(fs, v) == [t \in (DOMAIN fs) \cup {fw.Tag} |->
                               IF t = fw.Tag THEN v ELSE fs[t]]
    IN  IF Len(refFieldData) = 0 /\ Len(genFieldData) = 0
        THEN [r1 EXCEPT !.weightedScore = RAdd(@, fw.Weight),
                        !.FieldScores = setScore(@, One)]
        ELSE IF Len(refFieldData) = 0
        THEN [r1 EXCEPT !.ExtraFields = Append(@, fw.Tag),
                        !.FieldScores = setScore(@, Half),
                        !.weightedScore = RAdd(@, RMul(fw.Weight, Half))]
        ELSE IF Len(genFieldData) = 0
        THEN [r1 EXCEPT !.MissingFields = Append(@, fw.Tag),
                        !.FieldScores = setScore(@, Zero)]
        ELSE LET c == compareFieldContent(fw.Tag, refFieldData, genFieldData)
             IN  [r1 EXCEPT !.FieldDifferences =
                                IF RLt(c.score, Rat(4, 5)) THEN Append(@, c.diff) ELSE @,
                            !.FieldScores = setScore(@, c.score),
                            !.weightedScore = RAdd(@, RMul(fw.Weight, c.score))]

\* the iteration with a both-absent case that records the field score 1.0
\* and forgets to add the weight to the weighted sum
CompareWeighted_noCredit(fw, refFields, genFields, r) ==
    LET refFieldData == Lookup(refFields, fw.Tag)
        genFieldData == Lookup(genFields, fw.Tag)
        r1 == [r EXCEPT !.totalWeight = RAdd(@, fw.Weight)]
        setScore(fs, v) == [t \in (DOMAIN fs) \cup {fw.Tag} |->
                               IF t = fw.Tag THEN v ELSE fs[t]]
    IN  IF Len(refFieldData) = 0 /\ Len(genFieldData) = 0
        THEN [r1 EXCEPT !.FieldScores = setScore(@, One)]
        ELSE IF Len(refFieldData) = 0
        THEN [r1 EXCEPT !.ExtraFields = Append(@, fw.Tag),
                        !.FieldScores = setScore(@, Half),
                        !.weightedScore = RAdd(@, RMul(fw.Weight, Half))]
        ELSE IF Len(genFieldData) = 0
        THEN [r1 EXCEPT !.MissingFields = Append(@, fw.Tag),
                        !.FieldScores = setScore(@, Zero)]
        ELSE LET c == compareFieldContent(fw.Tag, refFieldData, genFieldData)
             IN  [r1 EXCEPT !.FieldDifferences = Append(@, c.diff),
                            !.FieldScores = setScore(@, c.score),
                            !.weightedScore = RAdd(@, RMul(fw.Weight, c.score))]

\* one iteration of the loop over the weights, on the accumulated result
CompareWeighted(fw, refFields, genFields, r) ==
    LET refFieldData == Lookup(refFields, fw.Tag)
        genFieldData == Lookup(genFields, fw.Tag)
        r1 == [r EXCEPT !.totalWeight = RAdd(@, fw.Weight)]
        setScore(fs, v) == [t \in (DOMAIN fs) \cup {fw.Tag} |->
                               IF t = fw.Tag THEN v ELSE fs[t]]
    IN  IF Len(refFieldData) = 0 /\ Len(genFieldData) = 0
        THEN [r1 EXCEPT !.weightedScore = RAdd(@, fw.Weight),
                        !.FieldScores = setScore(@, One)]
        ELSE IF Len(refFieldData) = 0
        THEN [r1 EXCEPT !.ExtraFields = Append(@, fw.Tag),
                        !.FieldScores = setScore(@, Half),
                        !.weightedScore = RAdd(@, RMul(fw.Weight, Half))]
        ELSE IF Len(genFieldData) = 0
        THEN [r1 EXCEPT !.MissingFields = Append(@, fw.Tag),
                        !.FieldScores = setScore(@, Zero)]
        ELSE LET c == compareFieldContent(fw.Tag, refFieldData, genFieldData)
             IN  [r1 EXCEPT !.FieldDifferences = Append(@, c.diff),
                            !.FieldScores = setScore(@, c.score),
                            !.weightedScore = RAdd(@, RMul(fw.Weight, c.score))]

\* the result after the first n entries of the weight table
RECURSIVE CompareLoop(_, _, _, _)
CompareLoop(weights, refFields, genFields, n) ==
    IF n = 0 THEN [NoComparisonResult EXCEPT !.err = "nil"]
    ELSE CompareWeighted(weights[n], refFields, genFields,
                         CompareLoop(weights, refFields, genFields, n - 1))

\* CompareRecords returning the weighted sum itself, not divided by the
\* total weight
CompareRecords_noDivide(referenceMARC, generatedMARC, weights) ==
    LET refRecord == parseMARCRecord(referenceMARC)
        genRecord == parseMARCRecord(generatedMARC)
    IN  IF refRecord.err
        THEN [NoComparisonResult EXCEPT !.err = "failed to parse reference MARC"]
        ELSE IF genRecord.err
        THEN [NoComparisonResult EXCEPT !.err = "failed to parse generated MARC"]
        ELSE LET r == CompareLoop(weights, groupFieldsByTag(refRecord.Fields),
                                  groupFieldsByTag(genRecord.Fields), Len(weights))
             IN  [r EXCEPT !.OverallScore = r.weightedScore]

\* CompareRecords under the weight table `weights` (the package variable)
CompareRecords(referenceMARC, generatedMARC, weights) ==
    LET refRecord == parseMARCRecord(referenceMARC)
        genRecord == parseMARCRecord(generatedMARC)
    IN  IF refRecord.err
        THEN [NoComparisonResult EXCEPT !.err = "failed to parse reference MARC"]
        ELSE IF genRecord.err
        THEN [NoComparisonResult EXCEPT !.err = "failed to parse generated MARC"]
        ELSE LET r == CompareLoop(weights, groupFieldsByTag(refRecord.Fields),
                                  groupFieldsByTag(genRecord.Fields), Len(weights))
             IN  IF RGt(r.totalWeight, Zero)
                 THEN [r EXCEPT !.OverallScore = RDiv(r.weightedScore, r.totalWeight)]
                 ELSE r

\* printTextReport: the entries of FieldDifferences listed under
\* "Significant Differences"
SignificantDifferences(r) ==
    SelectSeq(r.FieldDifferences, LAMBDA diff : RLt(diff.Similarity, Rat(4, 5)))

(***************************************************************************)
(* package metrics: AggregateEvaluationResults                             *)
(***************************************************************************)
RECURSIVE RSumSeq(_)
RSumSeq(scores) == IF scores = <<>> THEN Zero ELSE RAdd(Head(scores), RSumSeq(Tail(scores)))

\* calculateAverage
calculateAverage(scores) ==
    IF Len(scores) = 0 THEN Zero
    ELSE RDiv(RSumSeq(scores), Rat(Len(scores), 1))

NoFieldStats ==
    [ExactMatches |-> 0, FuzzyMatches |-> 0, NoMatches |-> 0, MissingFields |-> 0,
     AverageScore |-> Zero, Scores |-> <<>>]

\* aggregateFieldStats
aggregateFieldStats(stats, match) ==
    LET s == [stats EXCEPT !.Scores = Append(@, match.Score)]
    IN  IF match.Method = "exact" THEN [s EXCEPT !.ExactMatches = @ + 1]
        ELSE IF match.Method \in {"fuzzy_high", "fuzzy_medium", "substring"}
        THEN [s EXCEPT !.FuzzyMatches = @ + 1]
        ELSE IF match.Method = "no_match" THEN [s EXCEPT !.NoMatches = @ + 1]
        ELSE IF match.Method \in {"actual_missing", "expected_missing", "both_missing"}
        THEN [s EXCEPT !.MissingFields = @ + 1]
        ELSE s

NoAggregate ==
    [TotalRecords |-> -1, SuccessCount |-> 0, FailureCount |-> 0,
     TitleAccuracy |-> NoFieldStats, AuthorAccuracy |-> NoFieldStats,
     DateAccuracy |-> NoFieldStats, ISBNAccuracy |-> NoFieldStats,
     SubjectAccuracy |-> NoFieldStats, OverallAccuracy |-> Zero,
     AverageProcessingTime |-> 0, TotalProcessingTime |-> 0,
     totalOverallScore |-> Zero, successDuration |-> 0]

\* the body of the loop without the `continue` of a failed result: the
\* result is counted as a failure and then as a success as well
AggregateOne_noContinue(a, res) ==
    LET a1 == [a EXCEPT !.TotalProcessingTime = @ + res.ProcessingTime,
                        !.FailureCount = IF res.Error # "" THEN @ + 1 ELSE @]
        a2 == [a1 EXCEPT !.SuccessCount = @ + 1,
                         !.successDuration = @ + res.ProcessingTime]
    IN  IF res.Comparison = <<>> THEN a2
        ELSE LET c == res.Comparison[1]
             IN  [a2 EXCEPT
                   !.TitleAccuracy = aggregateFieldStats(@, c.TitleMatch),
                   !.AuthorAccuracy = aggregateFieldStats(@, c.AuthorMatch),
                   !.DateAccuracy = aggregateFieldStats(@, c.DateMatch),
                   !.ISBNAccuracy = aggregateFieldStats(@, c.ISBNMatch),
                   !.SubjectAccuracy = aggregateFieldStats(@, c.SubjectMatch),
                   !.totalOverallScore = RAdd(@, c.OverallScore)]

\* the body of the loop over the results
AggregateOne(a, res) ==
    LET a1 == [a EXCEPT !.TotalProcessingTime = @ + res.ProcessingTime]
    IN  IF res.Error # "" THEN [a1 EXCEPT !.FailureCount = @ + 1]
        ELSE LET a2 == [a1 EXCEPT !.SuccessCount = @ + 1,
                                  !.successDuration = @ + res.ProcessingTime]
             IN  IF res.Comparison = <<>> THEN a2
                 ELSE LET c == res.Comparison[1]
                      IN  [a2 EXCEPT
                            !.TitleAccuracy = aggregateFieldStats(@, c.TitleMatch),
                            !.AuthorAccuracy = aggregateFieldStats(@, c.AuthorMatch),
                            !.DateAccuracy = aggregateFieldStats(@, c.DateMatch),
                            !.ISBNAccuracy = aggregateFieldStats(@, c.ISBNMatch),
                            !.SubjectAccuracy = aggregateFieldStats(@, c.SubjectMatch),
                            !.totalOverallScore = RAdd(@, c.OverallScore)]

\* the aggregate after the first n results
RECURSIVE AggregateLoop(_, _)
AggregateLoop(rs, n) ==
    IF n = 0 THEN [NoAggregate EXCEPT !.TotalRecords = Len(rs)]
    ELSE AggregateOne(AggregateLoop(rs, n - 1), rs[n])

AggregateEvaluationResults(rs) ==
    LET a == AggregateLoop(rs, Len(rs))
        avg(stats) == [stats EXCEPT !.AverageScore = calculateAverage(stats.Scores)]
    IN  IF a.SuccessCount > 0
        THEN [a EXCEPT !.TitleAccuracy = avg(@), !.AuthorAccuracy = avg(@),
                       !.DateAccuracy = avg(@), !.ISBNAccuracy = avg(@),
                       !.SubjectAccuracy = avg(@),
                       !.OverallAccuracy = RDiv(a.totalOverallScore, Rat(a.SuccessCount, 1)),
                       !.AverageProcessingTime = a.successDuration \div a.SuccessCount]
        ELSE a

(***************************************************************************)
(* package evalcmd: calculateSummary                                       *)
(***************************************************************************)
RECURSIVE InsertSorted(_, _)
InsertSorted(sorted, x) ==
    IF sorted = <<>> THEN <<x>>
    ELSE IF RLe(x, Head(sorted)) THEN <<x>> \o sorted
    ELSE <<Head(sorted)>> \o InsertSorted(Tail(sorted), x)

\* sort.Float64s
RECURSIVE SortScores(_)
SortScores(scores) ==
    IF scores = <<>> THEN <<>> ELSE InsertSorted(SortScores(Tail(scores)), Head(scores))

NoSummary ==
    [TotalRecords |-> -1, SuccessfulEvals |-> 0, FailedEvals |-> 0,
     AverageScore |-> Zero, MedianScore |-> Zero, MinScore |-> Zero,
     MaxScore |-> Zero, FieldAccuracies |-> <<>>,
     scores |-> <<>>, fieldScores |-> <<>>, panicked |-> FALSE]

\* the body of the loop with the test of result.Error replaced by a test of
\* the comparison: a failed result that carries a comparison is scored
SummarizeOne_noErrorTest(sm, res) ==
    IF sm.panicked THEN sm
    ELSE IF res.ComparisonResult = <<>> THEN [sm EXCEPT !.FailedEvals = @ + 1]
    ELSE LET c == res.ComparisonResult[1]
             fs == sm.fieldScores
         IN  [sm EXCEPT !.SuccessfulEvals = @ + 1,
                        !.scores = Append(@, c.OverallScore),
                        !.fieldScores =
                            [f \in (DOMAIN fs) \cup (DOMAIN c.FieldScores) |->
                                IF f \in DOMAIN c.FieldScores
                                THEN Append(IF f \in DOMAIN fs THEN fs[f] ELSE <<>>,
                                            c.FieldScores[f])
                                ELSE fs[f]]]

\* the body of the loop over the results; reading the comparison of a result
\* that has neither an error nor a comparison is a nil dereference
SummarizeOne(sm, res) ==
    IF sm.panicked THEN sm
    ELSE IF res.Error # "" THEN [sm EXCEPT !.FailedEvals = @ + 1]
    ELSE IF res.ComparisonResult = <<>>
    THEN [sm EXCEPT !.SuccessfulEvals = @ + 1, !.panicked = TRUE]
    ELSE LET c == res.ComparisonResult[1]
             fs == sm.fieldScores
         IN  [sm EXCEPT !.SuccessfulEvals = @ + 1,
                        !.scores = Append(@, c.OverallScore),
                        !.fieldScores =
                            [f \in (DOMAIN fs) \cup (DOMAIN c.FieldScores) |->
                                IF f \in DOMAIN c.FieldScores
                                THEN Append(IF f \in DOMAIN fs THEN fs[f] ELSE <<>>,
                                            c.FieldScores[f])
                                ELSE fs[f]]]

\* the summary after the first n results
RECURSIVE SummaryLoop(_, _)
SummaryLoop(rs, n) ==
    IF n = 0 THEN [NoSummary EXCEPT !.TotalRecords = Len(rs)]
    ELSE SummarizeOne(SummaryLoop(rs, n - 1), rs[n])

calculateSummary(rs) ==
    LET sm == SummaryLoop(rs, Len(rs))
        n == Len(sm.scores)
        sorted == SortScores(sm.scores)
        mid == n \div 2
    IN  IF sm.panicked \/ n = 0 THEN sm
        ELSE [sm EXCEPT
               !.AverageScore = RDiv(RSumSeq(sm.scores), Rat(n, 1)),
               !.MedianScore = IF n % 2 = 0
                               THEN RDiv(RAdd(sorted[mid], sorted[mid + 1]), Rat(2, 1))
                               ELSE sorted[mid + 1],
               !.MinScore = sorted[1],
               !.MaxScore = sorted[n],
               !.FieldAccuracies =
                   [f \in DOMAIN sm.fieldScores |->
                       RDiv(RSumSeq(sm.fieldScores[f]), Rat(Len(sm.fieldScores[f]), 1))]]

(***************************************************************************)
(* float64.  The scores above are exact rationals.  Where the order of the *)
(* additions matters the sum is computed as the program computes it, in    *)
(* IEEE 754 binary64 with round-to-nearest-even.  A float64 is a record    *)
(* [m, e]: 53 bits m[1] = 1, m[2], ..., m[53] and an exponent e, standing  *)
(* for 0.m[1]m[2]...m[53] * 2^e; zero has no bits.                         *)
(***************************************************************************)
Zero64 == [m |-> <<>>, e |-> 0]

\* the sum of two bit strings of one length and a carry: the carry out, then
\* the bits of the sum
RECURSIVE AddBits(_, _, _)
AddBits(a, b, carry) ==
    IF a = <<>> THEN <<carry>>
    ELSE LET n == Len(a)
             s == a[n] + b[n] + carry
         IN  IF s < 2
             THEN Append(AddBits(SubSeq(a, 1, n - 1), SubSeq(b, 1, n - 1), 0), s)
             ELSE Append(AddBits(SubSeq(a, 1, n - 1), SubSeq(b, 1, n - 1), 1), s - 2)

\* the float64 nearest to 0.bits * 2^e, ties to the even neighbour
RECURSIVE Round64(_, _)
Round64(bits, e) ==
    IF bits = <<>> THEN Zero64
    ELSE IF Head(bits) = 0 THEN Round64(Tail(bits), e - 1)
    ELSE IF Len(bits) <= 53
    THEN [m |-> bits \o [i \in 1..(53 - Len(bits)) |-> 0], e |-> e]
    ELSE LET kept == SubSeq(bits, 1, 53)
             rest == SubSeq(bits, 54, Len(bits))
             above == \E i \in 2..Len(rest) : rest[i] = 1
             up == rest[1] = 1 /\ (above \/ kept[53] = 1)
             next == AddBits(kept, [i \in 1..53 |-> 0], 1)
         IN  IF ~up THEN [m |-> kept, e |-> e]
             ELSE IF next[1] = 1 THEN [m |-> SubSeq(next, 1, 53), e |-> e + 1]
             ELSE [m |-> Tail(next), e |-> e]

\* x + y of two float64
Float64Add(x, y) ==
    IF x.m = <<>> THEN y
    ELSE IF y.m = <<>> THEN x
    ELSE LET hi == IF x.e >= y.e THEN x ELSE y
             lo == IF x.e >= y.e THEN y ELSE x
             zeros == [i \in 1..(hi.e - lo.e) |-> 0]
         IN  Round64(AddBits(hi.m \o zeros, zeros \o lo.m, 0), hi.e + 1)

\* the bits of the quotient by n of the bit string `bits` that follows the
\* remainder rem and is followed by k zeros, then one bit that tells
\* whether the division left a remainder
RECURSIVE DivBits(_, _, _, _)
DivBits(bits, n, rem, k) ==
    IF bits = <<>> /\ k = 0 THEN << IF rem # 0 THEN 1 ELSE 0 >>
    ELSE LET v == 2 * rem + (IF bits = <<>> THEN 0 ELSE Head(bits))
         IN  <<v \div n>> \o DivBits(IF bits = <<>> THEN <<>> ELSE Tail(bits), n, v % n,
                                     IF bits = <<>> THEN k - 1 ELSE k)

\* x / float64(n) for a float64 x and an integer 0 < n < 2^8
Float64DivInt(x, n) == Round64(DivBits(x.m, n, 0, 10), x.e)

\* the float64 nearest to a rational r that is zero or 2^-10 <= r < 2^8,
\* which is what a correctly rounded division of its numerator by its
\* denominator returns
Float64Of(r) == Round64(DivBits(<<>>, r.d * 256, r.n, 72), 8)

\* total / float64(len(scores)) after `total += score` over the scores in
\* their order
RECURSIVE Float64Sum(_)
Float64Sum(scores) ==
    IF scores = <<>> THEN Zero64
    ELSE Float64Add(Float64Sum(SubSeq(scores, 1, Len(scores) - 1)),
                    Float64Of(scores[Len(scores)]))

Float64Average(scores) ==
    IF Len(scores) > 0 THEN Float64DivInt(Float64Sum(scores), Len(scores)) ELSE Zero64

(***************************************************************************)
(* package evaluation: dataset.json.  A string is a sequence of bytes; the *)
(* file holds the JSON text of a Dataset, or what a failed write left.     *)
(***************************************************************************)
\* a byte that is no valid UTF-8, and the rune U+FFFD
InvalidByte == "0xE9"
ReplacementRune == "U+FFFD"

\* encoding/json writing one byte of a string: the quote and the angle
\* bracket are escaped, an invalid byte is replaced by U+FFFD
EncodeChar(c) ==
    IF c = InvalidByte THEN "\\ufffd"
    ELSE IF c = "\"" THEN "\\\""
    ELSE IF c = "<" THEN "\\u003c"
    ELSE c

\* encoding/json reading one character or escape of a string
DecodeChar(t) ==
    IF t = "\\ufffd" THEN ReplacementRune
    ELSE IF t = "\\\"" THEN "\""
    ELSE IF t = "\\u003c" THEN "<"
    ELSE t

EncodeString(str) == [i \in 1..Len(str) |-> EncodeChar(str[i])]
DecodeString(text) == [i \in 1..Len(text) |-> DecodeChar(text[i])]

\* the JSON object of a DatasetItem: the path fields are omitempty
EncodeItem(item) ==
    LET keys == {"id", "reference_marc"}
                    \cup (IF item.CoverImagePath # <<>> THEN {"cover_image_path"} ELSE {})
    IN  [k \in keys |->
            IF k = "id" THEN EncodeString(item.ID)
            ELSE IF k = "reference_marc" THEN EncodeString(item.ReferenceMARC)
            ELSE EncodeString(item.CoverImagePath)]

\* a DatasetItem decoded from its JSON object: an absent key leaves ""
DecodeItem(object) ==
    [ID |-> IF "id" \in DOMAIN object THEN DecodeString(object["id"]) ELSE <<>>,
     ReferenceMARC |-> IF "reference_marc" \in DOMAIN object
                       THEN DecodeString(object["reference_marc"]) ELSE <<>>,
     CoverImagePath |-> IF "cover_image_path" \in DOMAIN object
                        THEN DecodeString(object["cover_image_path"]) ELSE <<>>]

\* no dataset.json, the file os.Create left empty, and the file after Encode
NoFile == [exists |-> FALSE, complete |-> FALSE, items |-> <<>>]
TruncatedFile == [exists |-> TRUE, complete |-> FALSE, items |-> <<>>]
EncodedFile(items) ==
    [exists |-> TRUE, complete |-> TRUE,
     items |-> [i \in 1..Len(items) |-> EncodeItem(items[i])]]

\* LoadDataset
LoadDataset(file) ==
    IF ~file.exists THEN [err |-> "failed to open dataset file", Items |-> <<>>]
    ELSE IF ~file.complete THEN [err |-> "failed to decode dataset", Items |-> <<>>]
    ELSE [err |-> "nil",
          Items |-> [i \in 1..Len(file.items) |-> DecodeItem(file.items[i])]]

\* what the file system does to one call: nothing, or MkdirAll, os.Create or
\* the write of Encode fails
Faults == {"none", "mkdir", "create", "write"}

\* AppendDatasetItem: load the file if it is there, append, truncate, encode
AppendDatasetItem(item, file, fault) ==
    IF fault = "mkdir"
    THEN [err |-> "failed to create output directory", file |-> file]
    ELSE LET existing == IF file.exists THEN LoadDataset(file)
                         ELSE [err |-> "nil", Items |-> <<>>]
         IN  IF existing.err # "nil"
             THEN [err |-> "failed to load existing dataset", file |-> file]
             ELSE IF fault = "create"
             THEN [err |-> "failed to create dataset file", file |-> file]
             ELSE IF fault = "write"
             THEN [err |-> "failed to encode dataset", file |-> TruncatedFile]
             ELSE [err |-> "nil", file |-> EncodedFile(Append(existing.Items, item))]

\* the items AppendDatasetItem is called with
DatasetItem(id, marc) == [ID |-> id, ReferenceMARC |-> marc, CoverImagePath |-> <<>>]
DatasetItems ==
    { DatasetItem(<<"1">>, <<"<", "x", "\"">>),
      DatasetItem(<<"2">>, <<"x", InvalidByte>>),
      [ID |-> <<"3">>, ReferenceMARC |-> <<"x">>, CoverImagePath |-> <<"c">>] }

(***************************************************************************)
(* command eval fetch: the parsers and filters of fetch.go.  The metadata  *)
(* of a harvested record is described by what its bytes hold: the format,  *)
(* whether the XML is well formed or the MARC library can scan the bytes,  *)
(* whether marc.NewLeader accepts the leader, and the leader and fields.   *)
(***************************************************************************)
Leader(status, type, bibLevel) == [Status |-> status, Type |-> type, BibLevel |-> bibLevel]

\* the zero value of marc.Leader
ZeroLeader == Leader("", "", "")

Metadata(id, format, readable, leaderValid, leader, fields) ==
    [id |-> id, format |-> format, readable |-> readable, leaderValid |-> leaderValid,
     leader |-> leader, Fields |-> fields, empty |-> FALSE]

\* a metadata body of no bytes
EmptyMetadata(id) ==
    [id |-> id, format |-> "binary", readable |-> FALSE, leaderValid |-> FALSE,
     leader |-> ZeroLeader, Fields |-> <<>>, empty |-> TRUE]

\* parseMARCXML: an invalid leader is logged and the record is returned
parseMARCXML(data) ==
    IF ~data.readable THEN [err |-> "failed to parse MARCXML", record |-> <<>>]
    ELSE [err |-> "nil",
          record |-> << [Leader |-> IF data.leaderValid THEN data.leader ELSE ZeroLeader,
                         Fields |-> data.Fields] >>]

\* parseMARCBinary: no record when Scan finds none or the library reports
\* an error
parseMARCBinary(data) ==
    IF data.empty THEN [err |-> "no MARC record found", record |-> <<>>]
    ELSE IF ~data.readable THEN [err |-> "scan error", record |-> <<>>]
    ELSE [err |-> "nil", record |-> << [Leader |-> data.leader, Fields |-> data.Fields] >>]

\* parseMARCRecord of fetch.go: MARCXML if the bytes hold "<record"
fetch_parseMARCRecord(data) ==
    IF data.format = "xml" THEN parseMARCXML(data) ELSE parseMARCBinary(data)

isDeletedRecord(record) == record.Leader.Status = "d"

\* a field with a subfield of the code, whose value passes the test
HasSubfield(record, tag, code, values) ==
    \E i \in 1..Len(record.Fields) :
        /\ record.Fields[i].Tag = tag
        /\ \E k \in 1..Len(record.Fields[i].SubFields) :
              /\ record.Fields[i].SubFields[k].Code = code
              /\ record.Fields[i].SubFields[k].Value \in values

isSuppressedRecord(record) == HasSubfield(record, "999", "i", {<<"1">>})

shouldExcludeRecord(record, tags) ==
    \E i \in 1..Len(record.Fields), k \in 1..Len(tags) : record.Fields[i].Tag = tags[k]

\* the values of a subfield that are not empty
NonEmptyValues == {<<"1">>, <<"1", "1">>}

\* isBookWithISBN without the test of the bibliographic level
isBookWithISBN_anyLevel(record) ==
    /\ record.Leader.Type \in {"a", "t"}
    /\ HasSubfield(record, "020", "a", NonEmptyValues)

isBookWithISBN(record) ==
    /\ record.Leader.Type \in {"a", "t"}
    /\ record.Leader.BibLevel = "m"
    /\ HasSubfield(record, "020", "a", NonEmptyValues)

\* what the loop body of executeFetch does with one record
FetchOutcome(data, tags) ==
    LET parsed == fetch_parseMARCRecord(data)
    IN  IF parsed.err # "nil" THEN "parse error"
        ELSE IF isDeletedRecord(parsed.record[1]) THEN "deleted"
        ELSE IF isSuppressedRecord(parsed.record[1]) THEN "suppressed"
        ELSE IF shouldExcludeRecord(parsed.record[1], tags) THEN "excluded"
        ELSE IF ~isBookWithISBN(parsed.record[1]) THEN "not a book with ISBN"
        ELSE "saved"

\* the records the endpoint can return
ISBN == DataField("020", "a", <<"1">>)
MetadataKinds ==
    << Metadata(<<"1">>, "xml", TRUE, TRUE, Leader("c", "a", "m"), <<ISBN>>),
       Metadata(<<"2">>, "xml", TRUE, TRUE, Leader("n", "t", "m"),
                <<ISBN, DataField("999", "i", <<"0">>)>>),
       Metadata(<<"3">>, "xml", TRUE, TRUE, Leader("d", "a", "m"), <<ISBN>>),
       Metadata(<<"4">>, "binary", TRUE, TRUE, Leader("c", "a", "m"),
                <<DataField("020", "a", <<"1", "1">>)>>),
       Metadata(<<"5">>, "xml", TRUE, TRUE, Leader("c", "a", "m"),
                <<ISBN, DataField("999", "i", <<"1">>)>>),
       Metadata(<<"6">>, "xml", TRUE, TRUE, Leader("c", "a", "m"),
                <<ISBN, DataField("655", "a", <<"x">>)>>),
       Metadata(<<"7">>, "xml", TRUE, TRUE, Leader("c", "a", "s"), <<ISBN>>),
       Metadata(<<"8">>, "xml", TRUE, TRUE, Leader("c", "e", "m"), <<ISBN>>),
       Metadata(<<"9">>, "xml", TRUE, TRUE, Leader("c", "a", "m"),
                <<DataField("020", "a", <<>>), DataField("020", "z", <<"1">>)>>),
       Metadata(<<"1", "0">>, "xml", FALSE, TRUE, Leader("c", "a", "m"), <<ISBN>>),
       Metadata(<<"1", "1">>, "xml", TRUE, FALSE, Leader("c", "a", "m"), <<ISBN>>),
       Metadata(<<"1", "2">>, "xml", TRUE, TRUE, Leader("c", "a", "m"), <<>>),
       EmptyMetadata(<<"1", "3">>),
       Metadata(<<"1", "4">>, "binary", FALSE, TRUE, Leader("c", "a", "m"), <<ISBN>>) >>

\* a harvest is two batches that together hold consecutive kinds
Window(start, n) == [i \in 1..n |-> MetadataKinds[((start + i) % Len(MetadataKinds)) + 1]]
Harvests ==
    { << Window(start, n1), Window(start + n1, n2) >> :
          start \in 1..Len(MetadataKinds), n1 \in 0..MaxBatch, n2 \in 0..MaxBatch }

Limits == 0..2
ExcludeFlags == {<<>>, <<"655">>}

\* string(metadataBytes): the bytes of a body, told apart by the identifier
BodyText(data) ==
    IF data.empty THEN <<>>
    ELSE IF data.format = "xml" THEN <<"<">> \o data.id
    ELSE data.id

(***************************************************************************)
(* State.  The inputs of one run of each tool and the results it builds.   *)
(***************************************************************************)
\* the zero values of metrics.FieldMatch and metadata.FieldComparison
NoFieldMatch == [Expected |-> <<>>, Actual |-> <<>>, Score |-> Zero, Method |-> ""]
NoFieldComparison ==
    [FieldName |-> "", Expected |-> <<>>, Actual |-> <<>>, Score |-> Zero,
     Distance |-> 0, Match |-> ""]
\* no similarity computed yet
NoSimilarities ==
    [calculate |-> Zero, positional |-> Zero, string |-> Zero,
     metricsDistance |-> 0, metadataDistance |-> 0, evaluationDistance |-> 0]
NoSimilarity == [done |-> FALSE, forward |-> NoSimilarities, backward |-> NoSimilarities]
NoFullComparison ==
    [Fields |-> <<>>, OverallScore |-> Zero, FieldsMatched |-> 0, FieldsMissing |-> 0,
     FieldsIncorrect |-> 0, LevenshteinTotal |-> 0, done |-> FALSE]
NoField == [Tag |-> "", SubFields |-> <<>>]
NoRecord == [valid |-> TRUE, Fields |-> <<>>]
NoExpected == [title |-> <<>>, author |-> <<>>, date |-> <<>>, isbn |-> <<>>,
               subject |-> <<>>]

VARIABLES
    tool,                    \* the entry point this run exercises
    expected, actual,        \* the two values of one field comparison
    fieldMatch,              \* metrics.compareField(expected, actual)
    fieldComparison,         \* metadata.compareField(_, expected, actual)
    similarity,              \* what the similarity functions return for the two values
    referenceMARC,           \* the reference record
    generatedMARC,           \* the generated record
    DefaultFieldWeights,     \* the package variable of package evaluation
    result,                  \* CompareRecords(referenceMARC, generatedMARC)
    full,                    \* CompareMARCRecords(referenceMARC, generatedMARC)
    prevResult, prevFull,    \* the two results before `added` joined generatedMARC
    added,                   \* the field appended to generatedMARC, or NoField
    expectedFields,          \* the five expected values of CompareMARCFields
    comparison,              \* CompareMARCFields(generatedMARC, expectedFields...)
    results, agg,            \* []metrics.EvaluationResult and its aggregate
    evalResults, summary,    \* []evaluation.EvaluationResult and its summary
    dataset, concurrency,    \* executeRun: dataset.Items and the --concurrency flag
    mainPc,                  \* where executeRun itself stands
    spawned,                 \* the number of worker goroutines started so far
    pc,                      \* where each worker goroutine stands
    semaphore,               \* the number of elements in the channel semaphore
    resultsChan, closed,     \* the queue of resultsChan, and whether it is closed
    wg,                      \* the counter of the WaitGroup
    resultsFile,             \* what SaveResults wrote, if it did
    averageScore64,          \* the float64 stored in results.Summary.AverageScore
    harvest,                 \* executeFetch: the batches the OAI-PMH endpoint returns
    limit, excludeTags,      \* the --limit and --exclude flags
    batchNo, recordNo,       \* the batch the callback runs on and its loop position
    savedCount, recordCount, \* the counters of executeFetch
    fetchLog,                \* what the loop did with each record it examined
    datasetFile,             \* the file dataset.json of the output directory
    appendCalls              \* every AppendDatasetItem call so far: item and error

fieldVars == <<expected, actual, fieldMatch, fieldComparison, similarity>>
recordVars == <<referenceMARC, generatedMARC, DefaultFieldWeights, result, full,
                prevResult, prevFull, added>>
marcVars == <<expectedFields, comparison>>
aggVars == <<results, agg, evalResults, summary>>
runVars == <<dataset, concurrency, mainPc, spawned, pc, semaphore, resultsChan, closed,
             wg, resultsFile, averageScore64>>
fetchVars == <<harvest, limit, excludeTags, batchNo, recordNo, savedCount, recordCount,
               fetchLog, datasetFile, appendCalls>>
vars == <<tool, fieldVars, recordVars, marcVars, aggVars, runVars, fetchVars>>

IdleField ==
    /\ expected = <<>> /\ actual = <<>>
    /\ fieldMatch = NoFieldMatch /\ fieldComparison = NoFieldComparison
    /\ similarity = NoSimilarity
IdleRecord ==
    /\ referenceMARC = NoRecord /\ generatedMARC = NoRecord
    /\ DefaultFieldWeights = StandardFieldWeights
    /\ result = NoComparisonResult /\ full = NoFullComparison
    /\ prevResult = NoComparisonResult /\ prevFull = NoFullComparison
    /\ added = NoField
IdleMARC == expectedFields = NoExpected /\ comparison = <<>>
IdleAgg ==
    /\ results = <<>> /\ agg = NoAggregate
    /\ evalResults = <<>> /\ summary = NoSummary
IdleRun ==
    /\ dataset = <<>> /\ concurrency = 1
    /\ mainPc = "" /\ spawned = 0 /\ pc = <<>>
    /\ semaphore = 0 /\ resultsChan = <<>> /\ closed = FALSE /\ wg = 0
    /\ resultsFile = <<>> /\ averageScore64 = Zero64

IdleFetch ==
    /\ harvest = <<>> /\ limit = 0 /\ excludeTags = <<>>
    /\ batchNo = 0 /\ recordNo = 0 /\ savedCount = 0 /\ recordCount = 0
    /\ fetchLog = <<>> /\ datasetFile = NoFile /\ appendCalls = <<>>

(***************************************************************************)
(* One field comparison by each of the two field comparators.              *)
(***************************************************************************)
InitField ==
    /\ tool = "compareField"
    /\ expected \in InputStrings
    /\ actual \in InputStrings
    /\ fieldMatch = NoFieldMatch
    /\ fieldComparison = NoFieldComparison
    /\ similarity = NoSimilarity
    /\ IdleRecord /\ IdleMARC /\ IdleAgg /\ IdleRun /\ IdleFetch

MetricsCompareField ==
    /\ tool = "compareField"
    /\ fieldMatch.Method = ""
    /\ fieldMatch' = metrics_compareField(expected, actual)
    /\ UNCHANGED <<tool, fetchVars, runVars, expected, actual, fieldComparison, similarity, recordVars,
                   marcVars, aggVars>>

MetadataCompareField ==
    /\ tool = "compareField"
    /\ fieldComparison.Match = ""
    /\ fieldComparison' = metadata_compareField("title", expected, actual)
    /\ UNCHANGED <<tool, fetchVars, runVars, expected, actual, fieldMatch, similarity, recordVars,
                   marcVars, aggVars>>

(***************************************************************************)
(* Record against record, by CompareRecords and CompareMARCRecords, then   *)
(* once more after one field joined the generated record.                  *)
(***************************************************************************)
InitRecords ==
    /\ tool = "CompareRecords"
    /\ referenceMARC \in RawRecords
    /\ generatedMARC \in RawRecords
    /\ DefaultFieldWeights = StandardFieldWeights
    /\ result = NoComparisonResult /\ full = NoFullComparison
    /\ prevResult = NoComparisonResult /\ prevFull = NoFullComparison
    /\ added = NoField
    /\ IdleField /\ IdleMARC /\ IdleAgg /\ IdleRun /\ IdleFetch

DoCompareRecords ==
    /\ tool = "CompareRecords"
    /\ result.err = ""
    /\ result' = CompareRecords(referenceMARC, generatedMARC, DefaultFieldWeights)
    /\ UNCHANGED <<tool, fetchVars, runVars, referenceMARC, generatedMARC, DefaultFieldWeights, full,
                   prevResult, prevFull, added, fieldVars, marcVars, aggVars>>

DoCompareMARCRecords ==
    /\ tool = "CompareRecords"
    /\ result.err # ""
    /\ ~full.done
    /\ full' = CompareMARCRecords(referenceMARC, generatedMARC)
    /\ UNCHANGED <<tool, fetchVars, runVars, referenceMARC, generatedMARC, DefaultFieldWeights, result,
                   prevResult, prevFull, added, fieldVars, marcVars, aggVars>>

\* the generator returns the same record with one more field
AddGeneratedField ==
    /\ tool = "CompareRecords"
    /\ full.done
    /\ added = NoField
    /\ generatedMARC.valid
    /\ Len(generatedMARC.Fields) < MaxFields
    /\ \E f \in FieldKinds :
          /\ added' = f
          /\ generatedMARC' = [generatedMARC EXCEPT !.Fields = Append(@, f)]
    /\ prevResult' = result
    /\ prevFull' = full
    /\ result' = NoComparisonResult
    /\ full' = NoFullComparison
    /\ UNCHANGED <<tool, fetchVars, runVars, referenceMARC, DefaultFieldWeights, fieldVars, marcVars, aggVars>>

(***************************************************************************)
(* CompareMARCFields of a generated record against the five expected       *)
(* values of a dataset row.                                                *)
(***************************************************************************)
ExpectedRows ==
    [title : {<<>>, Rep("x", 5), Rep("x", 2) \o Rep("1", 3)},
     author : {<<>>, <<"x">>},
     date : {<<>>, <<"1">>},
     isbn : {<<>>, <<"1", "-", "1">>, <<"1", "1">>, <<"1", "X">>},
     subject : {<<>>, <<"x">>, <<"x", ";", " ", "x">>}]

InitMARCFields ==
    /\ tool = "CompareMARCFields"
    /\ generatedMARC \in MARCTexts
    /\ expectedFields \in ExpectedRows
    /\ comparison = <<>>
    /\ referenceMARC = NoRecord
    /\ DefaultFieldWeights = StandardFieldWeights
    /\ result = NoComparisonResult /\ full = NoFullComparison
    /\ prevResult = NoComparisonResult /\ prevFull = NoFullComparison
    /\ added = NoField
    /\ IdleField /\ IdleAgg /\ IdleRun /\ IdleFetch

DoCompareMARCFields ==
    /\ tool = "CompareMARCFields"
    /\ comparison = <<>>
    /\ comparison' = << CompareMARCFields(generatedMARC, expectedFields.title,
                            expectedFields.author, expectedFields.date,
                            expectedFields.isbn, expectedFields.subject) >>
    /\ UNCHANGED <<tool, fetchVars, runVars, expectedFields, fieldVars, recordVars, aggVars>>

(***************************************************************************)
(* The two aggregators on a sequence of per-record results.                *)
(***************************************************************************)
SampleText == [valid |-> TRUE,
               Fields |-> << DataField("245", "a", Rep("x", 5)),
                             DataField("020", "a", <<"1", "-", "1">>) >>]
SampleOther == [valid |-> TRUE,
                Fields |-> << DataField("245", "a", Rep("x", 4) \o <<"1">>) >>]

\* the results the aggregator is handed: an error with or without a
\* comparison, or no error with or without the comparison of CompareMARCFields
MetricsResults ==
    { [Error |-> "MARC generation failed", Comparison |-> <<>>, ProcessingTime |-> 1],
      [Error |-> "No OCR text available for title page",
       Comparison |-> << CompareMARCFields(SampleText, Rep("x", 5), <<>>, <<>>,
                                           <<>>, <<>>) >>,
       ProcessingTime |-> 1],
      [Error |-> "", Comparison |-> <<>>, ProcessingTime |-> 2],
      [Error |-> "",
       Comparison |-> << CompareMARCFields(SampleText, Rep("x", 5), <<>>, <<>>,
                                           <<"1", "1">>, <<>>) >>,
       ProcessingTime |-> 3],
      [Error |-> "",
       Comparison |-> << CompareMARCFields(SampleOther, Rep("x", 5), <<"x">>, <<>>,
                                           <<>>, <<>>) >>,
       ProcessingTime |-> 5] }

\* the results calculateSummary is handed: an error with or without a
\* comparison, or the result of CompareRecords
EvalResults ==
    { [ID |-> "a", Error |-> "no image available for cataloging",
       ComparisonResult |-> <<>>],
      [ID |-> "e", Error |-> "failed to generate MARC",
       ComparisonResult |-> << CompareRecords(SampleOther, SampleOther,
                                              StandardFieldWeights) >>],
      [ID |-> "b", Error |-> "",
       ComparisonResult |-> << CompareRecords(SampleText, SampleText,
                                              StandardFieldWeights) >>],
      [ID |-> "c", Error |-> "",
       ComparisonResult |-> << CompareRecords(SampleText, SampleOther,
                                              StandardFieldWeights) >>],
      [ID |-> "d", Error |-> "",
       ComparisonResult |-> << CompareRecords(SampleOther, NoRecord,
                                              StandardFieldWeights) >>] }

RECURSIVE SeqsUpTo(_, _)
SeqsUpTo(S, n) ==
    IF n = 0 THEN {<<>>}
    ELSE LET shorter == SeqsUpTo(S, n - 1)
         IN  shorter \cup {Append(q, e) : q \in shorter, e \in S}

InitAggregate ==
    /\ tool = "AggregateEvaluationResults"
    /\ results \in SeqsUpTo(MetricsResults, MaxResults)
    /\ evalResults = <<>>
    /\ agg = NoAggregate
    /\ summary = NoSummary
    /\ IdleField /\ IdleRecord /\ IdleMARC /\ IdleRun /\ IdleFetch

InitSummary ==
    /\ tool = "calculateSummary"
    /\ results = <<>>
    /\ evalResults \in SeqsUpTo(EvalResults, MaxResults)
    /\ agg = NoAggregate
    /\ summary = NoSummary
    /\ IdleField /\ IdleRecord /\ IdleMARC /\ IdleRun /\ IdleFetch

DoAggregate ==
    /\ tool = "AggregateEvaluationResults"
    /\ agg.TotalRecords = -1
    /\ agg' = AggregateEvaluationResults(results)
    /\ UNCHANGED <<tool, fetchVars, runVars, results, evalResults, summary, fieldVars, recordVars, marcVars>>

DoSummary ==
    /\ tool = "calculateSummary"
    /\ summary.TotalRecords = -1
    /\ summary' = calculateSummary(evalResults)
    /\ UNCHANGED <<tool, fetchVars, runVars, results, evalResults, agg, fieldVars, recordVars, marcVars>>

(***************************************************************************)
(* Spec: one run of one of the entry points.                               *)
(***************************************************************************)
Init == InitField \/ InitRecords \/ InitMARCFields \/ InitAggregate \/ InitSummary

Next ==
    \/ MetricsCompareField
    \/ MetadataCompareField
    \/ DoCompareRecords
    \/ DoCompareMARCRecords
    \/ AddGeneratedField
    \/ DoCompareMARCFields
    \/ DoAggregate
    \/ DoSummary

Spec == Init /\ [][Next]_vars

(***************************************************************************)
(* SpecWeights: CompareRecords after DefaultFieldWeights was edited.       *)
(***************************************************************************)
\* tables an edit of DefaultFieldWeights can leave behind
WeightConfigs ==
    { StandardFieldWeights,
      <<>>,
      << FW("245", 0), FW("100", 0) >>,
      << FW("245", 50), FW("100", 30), FW("260", 20) >>,
      << FW("245", 50), FW("650", -50) >>,
      << FW("245", -25), FW("650", 10) >> }

InitWeights ==
    /\ tool = "CompareRecords"
    /\ referenceMARC \in RawRecords
    /\ generatedMARC \in RawRecords
    /\ DefaultFieldWeights \in WeightConfigs
    /\ result = NoComparisonResult /\ full = NoFullComparison
    /\ prevResult = NoComparisonResult /\ prevFull = NoFullComparison
    /\ added = NoField
    /\ IdleField /\ IdleMARC /\ IdleAgg /\ IdleRun /\ IdleFetch

NextWeights == DoCompareRecords

SpecWeights == InitWeights /\ [][NextWeights]_vars

(***************************************************************************)
(* The similarity functions on their own: the three similarity ratios and  *)
(* the three edit distances of one pair of strings, taken in both orders.  *)
(***************************************************************************)
Similarities(a, b) ==
    [calculate |-> calculateSimilarity(a, b),
     positional |-> positional_calculateSimilarity(a, b),
     string |-> stringSimilarity(a, b),
     metricsDistance |-> metrics_levenshteinDistance(a, b),
     metadataDistance |-> metadata_levenshteinDistance(a, b),
     evaluationDistance |-> evaluation_levenshteinDistance(a, b)]

InitSimilarity ==
    /\ tool = "similarity"
    /\ expected \in InputStrings
    /\ actual \in InputStrings
    /\ fieldMatch = NoFieldMatch
    /\ fieldComparison = NoFieldComparison
    /\ similarity = NoSimilarity
    /\ IdleRecord /\ IdleMARC /\ IdleAgg /\ IdleRun /\ IdleFetch

DoSimilarity ==
    /\ tool = "similarity"
    /\ ~similarity.done
    /\ similarity' = [done |-> TRUE,
                      forward |-> Similarities(expected, actual),
                      backward |-> Similarities(actual, expected)]
    /\ UNCHANGED <<tool, fetchVars, runVars, expected, actual, fieldMatch, fieldComparison, recordVars,
                   marcVars, aggVars>>

NextSimilarity == DoSimilarity

SpecSimilarity == InitSimilarity /\ [][NextSimilarity]_vars

(***************************************************************************)
(* AppendDatasetItem called again and again on one output directory that   *)
(* starts without a dataset.json.                                          *)
(***************************************************************************)
InitDataset ==
    /\ tool = "AppendDatasetItem"
    /\ datasetFile = NoFile
    /\ appendCalls = <<>>
    /\ harvest = <<>> /\ limit = 0 /\ excludeTags = <<>>
    /\ batchNo = 0 /\ recordNo = 0 /\ savedCount = 0 /\ recordCount = 0
    /\ fetchLog = <<>>
    /\ IdleField /\ IdleRecord /\ IdleMARC /\ IdleAgg /\ IdleRun

DoAppend ==
    /\ tool = "AppendDatasetItem"
    /\ Len(appendCalls) < MaxAppends
    /\ \E item \in DatasetItems, fault \in Faults :
          LET r == AppendDatasetItem(item, datasetFile, fault)
          IN  /\ datasetFile' = r.file
              /\ appendCalls' = Append(appendCalls,
                                       [item |-> item, err |-> r.err, fault |-> fault,
                                        before |-> datasetFile])
    /\ UNCHANGED <<tool, harvest, limit, excludeTags, batchNo, recordNo, savedCount,
                   recordCount, fetchLog, fieldVars, recordVars, marcVars, aggVars, runVars>>

NextDataset == DoAppend

SpecDataset == InitDataset /\ [][NextDataset]_vars

(***************************************************************************)
(* executeFetch: the callback of request.Harvest runs once for each batch, *)
(* its loop once for each record of the batch.                             *)
(***************************************************************************)
InitFetch ==
    /\ tool = "executeFetch"
    /\ harvest \in Harvests
    /\ limit \in Limits
    /\ excludeTags \in ExcludeFlags
    /\ batchNo = 1 /\ recordNo = 1
    /\ savedCount = 0 /\ recordCount = 0
    /\ fetchLog = <<>>
    /\ datasetFile = NoFile
    /\ appendCalls = <<>>
    /\ IdleField /\ IdleRecord /\ IdleMARC /\ IdleAgg /\ IdleRun

inBatch == batchNo <= Len(harvest) /\ recordNo <= Len(harvest[batchNo])

\* one iteration of the loop that does not save the record
SkipRecord ==
    /\ tool = "executeFetch"
    /\ inBatch
    /\ savedCount < limit
    /\ LET data == harvest[batchNo][recordNo]
           outcome == FetchOutcome(data, excludeTags)
       IN  /\ outcome # "saved"
           /\ fetchLog' = Append(fetchLog, [data |-> data, outcome |-> outcome,
                                            batch |-> batchNo, saved |-> savedCount])
    /\ recordCount' = recordCount + 1
    /\ recordNo' = recordNo + 1
    /\ UNCHANGED <<tool, harvest, limit, excludeTags, batchNo, savedCount, datasetFile,
                   appendCalls, fieldVars, recordVars, marcVars, aggVars, runVars>>

\* one iteration of the loop that passes every filter and appends the item
SaveRecord ==
    /\ tool = "executeFetch"
    /\ inBatch
    /\ savedCount < limit
    /\ LET data == harvest[batchNo][recordNo]
           item == DatasetItem(data.id, BodyText(data))
       IN  /\ FetchOutcome(data, excludeTags) = "saved"
           /\ fetchLog' = Append(fetchLog, [data |-> data, outcome |-> "saved",
                                            batch |-> batchNo, saved |-> savedCount])
           /\ \E fault \in Faults :
                  LET r == AppendDatasetItem(item, datasetFile, fault)
                  IN  /\ datasetFile' = r.file
                      /\ appendCalls' = Append(appendCalls,
                                               [item |-> item, err |-> r.err,
                                                fault |-> fault, before |-> datasetFile])
    /\ recordCount' = recordCount + 1
    /\ savedCount' = savedCount + 1
    /\ recordNo' = recordNo + 1
    /\ UNCHANGED <<tool, harvest, limit, excludeTags, batchNo, fieldVars, recordVars,
                   marcVars, aggVars, runVars>>

\* the limit is reached: the callback returns, the rest of the batch unread
LimitReached ==
    /\ tool = "executeFetch"
    /\ inBatch
    /\ savedCount >= limit
    /\ batchNo' = batchNo + 1
    /\ recordNo' = 1
    /\ UNCHANGED <<tool, harvest, limit, excludeTags, savedCount, recordCount, fetchLog,
                   datasetFile, appendCalls, fieldVars, recordVars, marcVars, aggVars,
                   runVars>>

\* the loop ran through the batch: the callback ends and Harvest requests
\* the next batch
EndOfBatch ==
    /\ tool = "executeFetch"
    /\ batchNo <= Len(harvest)
    /\ recordNo > Len(harvest[batchNo])
    /\ batchNo' = batchNo + 1
    /\ recordNo' = 1
    /\ UNCHANGED <<tool, harvest, limit, excludeTags, savedCount, recordCount, fetchLog,
                   datasetFile, appendCalls, fieldVars, recordVars, marcVars, aggVars,
                   runVars>>

NextFetch == SkipRecord \/ SaveRecord \/ LimitReached \/ EndOfBatch

SpecFetch == InitFetch /\ [][NextFetch]_vars

(***************************************************************************)
(* package evalcmd: executeRun.  One goroutine per dataset item acquires   *)
(* the semaphore, runs processItem, sends the result, releases the         *)
(* semaphore and reports to the WaitGroup; one goroutine closes the        *)
(* channel after the WaitGroup; executeRun collects until the channel is   *)
(* closed and drained, then summarizes and saves.                          *)
(***************************************************************************)
RunReference ==
    [valid |-> TRUE,
     Fields |-> << DataField("245", "a", Rep("x", 5)), DataField("650", "a", <<"x">>) >>]
RunTitleOnly == [valid |-> TRUE, Fields |-> << DataField("245", "a", Rep("x", 5)) >>]
RunNoteOnly == [valid |-> TRUE, Fields |-> << DataField("500", "a", <<"x">>) >>]

\* a dataset item together with the answer GenerateMARCFromImage gives for it
Item(title, cover, reference, failed, marc) ==
    [ID |-> 0, TitlePagePath |-> title, CoverImagePath |-> cover,
     ReferenceMARC |-> reference, generated |-> [err |-> failed, marc |-> marc]]

\* the items datasets are cut from: three that are compared (overall scores
\* 16/23, 21/23 and 21/23, each of which the float64 division of
\* CompareRecords returns correctly rounded), one without an image, one whose
\* generation fails and one whose reference record does not parse
ItemKinds ==
    << Item("title.png", "", RunReference, FALSE, RunNoteOnly),
       Item("", "cover.png", RunReference, FALSE, RunTitleOnly),
       Item("title.png", "cover.png", RunReference, FALSE, RunTitleOnly),
       Item("", "", RunReference, FALSE, RunTitleOnly),
       Item("title.png", "cover.png", RunReference, TRUE, NoRecord),
       Item("title.png", "", BadMARC, FALSE, RunTitleOnly) >>

\* dataset.Items: up to MaxItems consecutive items of the cycle of ItemKinds,
\* from any start; item i carries the identifier i
Datasets ==
    { [i \in 1..n |-> [ItemKinds[((start + i) % Len(ItemKinds)) + 1] EXCEPT !.ID = i]] :
          start \in 1..Len(ItemKinds), n \in 0..MaxItems }

\* the values of the --concurrency flag, which is passed on as it is given
Concurrencies == -1..MaxConcurrency

\* processItem without its test of the error of CompareRecords: the result
\* of a comparison that failed carries no Error
processItem_noCompareError(item) ==
    LET res == [ID |-> item.ID, Error |-> "", ComparisonResult |-> <<>>]
        imagePath == IF item.TitlePagePath = "" THEN item.CoverImagePath
                     ELSE item.TitlePagePath
        cmp == CompareRecords(item.ReferenceMARC, item.generated.marc,
                              DefaultFieldWeights)
    IN  IF imagePath = ""
        THEN [res EXCEPT !.Error = "no image available for cataloging"]
        ELSE IF item.generated.err
        THEN [res EXCEPT !.Error = "failed to generate MARC"]
        ELSE [res EXCEPT !.ComparisonResult = <<cmp>>]

\* processItem without the assignment to Error where generation fails: the
\* result returned there carries neither an error nor a comparison
processItem_noGenerateError(item) ==
    LET res == [ID |-> item.ID, Error |-> "", ComparisonResult |-> <<>>]
        imagePath == IF item.TitlePagePath = "" THEN item.CoverImagePath
                     ELSE item.TitlePagePath
        cmp == CompareRecords(item.ReferenceMARC, item.generated.marc,
                              DefaultFieldWeights)
    IN  IF imagePath = ""
        THEN [res EXCEPT !.Error = "no image available for cataloging"]
        ELSE IF item.generated.err
        THEN res
        ELSE IF cmp.err # "nil"
        THEN [res EXCEPT !.Error = "failed to compare records"]
        ELSE [res EXCEPT !.ComparisonResult = <<cmp>>]

processItem(item) ==
    LET res == [ID |-> item.ID, Error |-> "", ComparisonResult |-> <<>>]
        imagePath == IF item.TitlePagePath = "" THEN item.CoverImagePath
                     ELSE item.TitlePagePath
        cmp == CompareRecords(item.ReferenceMARC, item.generated.marc,
                              DefaultFieldWeights)
    IN  IF imagePath = ""
        THEN [res EXCEPT !.Error = "no image available for cataloging"]
        ELSE IF item.generated.err
        THEN [res EXCEPT !.Error = "failed to generate MARC"]
        ELSE IF cmp.err # "nil"
        THEN [res EXCEPT !.Error = "failed to compare records"]
        ELSE [res EXCEPT !.ComparisonResult = <<cmp>>]

InitRun ==
    /\ tool = "executeRun"
    /\ dataset \in Datasets
    /\ concurrency \in Concurrencies
    /\ mainPc = "make"
    /\ spawned = 0
    /\ pc = [i \in 1..Len(dataset) |-> ""]
    /\ semaphore = 0 /\ resultsChan = <<>> /\ closed = FALSE /\ wg = 0
    /\ resultsFile = <<>> /\ averageScore64 = Zero64
    /\ evalResults = <<>> /\ summary = NoSummary
    /\ results = <<>> /\ agg = NoAggregate
    /\ IdleField /\ IdleRecord /\ IdleMARC /\ IdleFetch

\* make(chan struct{}, concurrency) panics for a negative size
MakeChannels ==
    /\ tool = "executeRun"
    /\ mainPc = "make"
    /\ mainPc' = IF concurrency < 0 THEN "panic" ELSE "spawn"
    /\ UNCHANGED <<tool, fetchVars, dataset, concurrency, spawned, pc, semaphore, resultsChan,
                   closed, wg, resultsFile, averageScore64, fieldVars, recordVars,
                   marcVars, aggVars>>

\* one iteration of the loop over dataset.Items: wg.Add(1) and go
Spawn ==
    /\ mainPc = "spawn"
    /\ spawned < Len(dataset)
    /\ spawned' = spawned + 1
    /\ wg' = wg + 1
    /\ pc' = [pc EXCEPT ![spawned + 1] = "acquire"]
    /\ UNCHANGED <<tool, fetchVars, dataset, concurrency, mainPc, semaphore, resultsChan, closed,
                   resultsFile, averageScore64, fieldVars, recordVars, marcVars, aggVars>>

\* after the loop: go func() { wg.Wait(); close(resultsChan) }()
StartCloser ==
    /\ mainPc = "spawn"
    /\ spawned = Len(dataset)
    /\ mainPc' = "collect"
    /\ UNCHANGED <<tool, fetchVars, dataset, concurrency, spawned, pc, semaphore, resultsChan,
                   closed, wg, resultsFile, averageScore64, fieldVars, recordVars,
                   marcVars, aggVars>>

\* the send to the semaphore going through although the channel is full
Acquire_noWait(i) ==
    /\ pc[i] = "acquire"
    /\ semaphore' = semaphore + 1
    /\ pc' = [pc EXCEPT ![i] = "processItem"]
    /\ UNCHANGED <<tool, fetchVars, dataset, concurrency, mainPc, spawned, resultsChan, closed, wg,
                   resultsFile, averageScore64, fieldVars, recordVars, marcVars, aggVars>>

\* semaphore <- struct{}{}, which waits while the channel is full
Acquire(i) ==
    /\ pc[i] = "acquire"
    /\ semaphore < concurrency
    /\ semaphore' = semaphore + 1
    /\ pc' = [pc EXCEPT ![i] = "processItem"]
    /\ UNCHANGED <<tool, fetchVars, dataset, concurrency, mainPc, spawned, resultsChan, closed, wg,
                   resultsFile, averageScore64, fieldVars, recordVars, marcVars, aggVars>>

\* result := processItem(item); resultsChan <- result, which never waits
\* since the channel has room for one result of every item
Process(i) ==
    /\ pc[i] = "processItem"
    /\ Len(resultsChan) < Len(dataset)
    /\ resultsChan' = Append(resultsChan, processItem(dataset[i]))
    /\ pc' = [pc EXCEPT ![i] = "release"]
    /\ UNCHANGED <<tool, fetchVars, dataset, concurrency, mainPc, spawned, semaphore, closed, wg,
                   resultsFile, averageScore64, fieldVars, recordVars, marcVars, aggVars>>

\* the deferred <-semaphore
Release(i) ==
    /\ pc[i] = "release"
    /\ semaphore' = semaphore - 1
    /\ pc' = [pc EXCEPT ![i] = "done"]
    /\ UNCHANGED <<tool, fetchVars, dataset, concurrency, mainPc, spawned, resultsChan, closed, wg,
                   resultsFile, averageScore64, fieldVars, recordVars, marcVars, aggVars>>

\* the deferred wg.Done()
Done(i) ==
    /\ pc[i] = "done"
    /\ wg' = wg - 1
    /\ pc' = [pc EXCEPT ![i] = "exited"]
    /\ UNCHANGED <<tool, fetchVars, dataset, concurrency, mainPc, spawned, semaphore, resultsChan,
                   closed, resultsFile, averageScore64, fieldVars, recordVars, marcVars,
                   aggVars>>

\* the body of the closing goroutine keeps no wait: it closes the channel as
\* soon as it runs
CloseResults_noWait ==
    /\ mainPc = "collect"
    /\ ~closed
    /\ closed' = TRUE
    /\ UNCHANGED <<tool, fetchVars, dataset, concurrency, mainPc, spawned, pc, semaphore,
                   resultsChan, wg, resultsFile, averageScore64, fieldVars, recordVars,
                   marcVars, aggVars>>

\* wg.Wait(); close(resultsChan)
CloseResults ==
    /\ mainPc = "collect"
    /\ ~closed
    /\ wg = 0
    /\ closed' = TRUE
    /\ UNCHANGED <<tool, fetchVars, dataset, concurrency, mainPc, spawned, pc, semaphore,
                   resultsChan, wg, resultsFile, averageScore64, fieldVars, recordVars,
                   marcVars, aggVars>>

\* one iteration of `for result := range resultsChan`
Collect ==
    /\ mainPc = "collect"
    /\ resultsChan # <<>>
    /\ evalResults' = Append(evalResults, Head(resultsChan))
    /\ resultsChan' = Tail(resultsChan)
    /\ UNCHANGED <<tool, fetchVars, dataset, concurrency, mainPc, spawned, pc, semaphore, closed,
                   wg, resultsFile, averageScore64, results, agg, summary, fieldVars,
                   recordVars, marcVars>>

\* the range ends once the channel is closed and drained;
\* results.Summary = calculateSummary(results.Results)
Summarize ==
    /\ mainPc = "collect"
    /\ resultsChan = <<>>
    /\ closed
    /\ summary' = calculateSummary(evalResults)
    /\ averageScore64' = Float64Average(calculateSummary(evalResults).scores)
    /\ mainPc' = "save"
    /\ UNCHANGED <<tool, fetchVars, dataset, concurrency, spawned, pc, semaphore, resultsChan,
                   closed, wg, resultsFile, results, agg, evalResults, fieldVars,
                   recordVars, marcVars>>

\* evaluation.SaveResults(results, outputDir)
Save ==
    /\ mainPc = "save"
    /\ resultsFile' = << [Results |-> evalResults, Summary |-> summary] >>
    /\ mainPc' = "done"
    /\ UNCHANGED <<tool, fetchVars, dataset, concurrency, spawned, pc, semaphore, resultsChan,
                   closed, wg, averageScore64, fieldVars, recordVars, marcVars, aggVars>>

NextRun ==
    \/ MakeChannels
    \/ Spawn
    \/ StartCloser
    \/ \E i \in 1..Len(dataset) : Acquire(i)
    \/ \E i \in 1..Len(dataset) : Process(i)
    \/ \E i \in 1..Len(dataset) : Release(i)
    \/ \E i \in 1..Len(dataset) : Done(i)
    \/ CloseResults
    \/ Collect
    \/ Summarize
    \/ Save

SpecRun == InitRun /\ [][NextRun]_vars

\* the steps of the goroutine of executeRun and those of the workers.  The
\* two steps that compute a result are named by the move they make: of the
\* steps of NextRun, Summarize alone takes mainPc from "collect" to "save"
\* and Process(i) alone takes pc[i] from "processItem" to "release"
mainSteps == MakeChannels \/ Spawn \/ StartCloser \/ Collect \/ Save

SummarizeStep ==
    /\ mainPc = "collect"
    /\ resultsChan = <<>>
    /\ closed
    /\ mainPc' = "save"

workerSteps == \E i \in 1..Len(dataset) : Acquire(i) \/ Release(i) \/ Done(i)

ProcessStep ==
    \E i \in 1..Len(dataset) :
        /\ pc[i] = "processItem"
        /\ Len(resultsChan) < Len(dataset)
        /\ pc' = [pc EXCEPT ![i] = "release"]

\* the run under the scheduling of the Go runtime: a goroutine that can take
\* a step is not held back for ever, be it executeRun, the closing goroutine
\* or a worker
SpecRunFair ==
    /\ InitRun /\ [][NextRun]_vars
    /\ WF_vars(mainSteps) /\ WF_mainPc(SummarizeStep)
    /\ WF_vars(CloseResults)
    /\ WF_vars(workerSteps) /\ WF_pc(ProcessStep)

(***************************************************************************)
(* The claims.  A result is read once its operation has run: a field match *)
(* has a Method, a record comparison has an err, `comparison` is non-empty.*)
(***************************************************************************)
\* the five matches of a MARCComparison
FieldMatchesOf(c) ==
    {c.TitleMatch, c.AuthorMatch, c.DateMatch, c.ISBNMatch, c.SubjectMatch}

\* the tags of a weight table
WeightedTags(weights) == {weights[k].Tag : k \in 1..Len(weights)}

recordsCompared == tool = "CompareRecords" /\ result.err = "nil"

referenceTags == TagsOf(referenceMARC.Fields)
generatedTags == TagsOf(generatedMARC.Fields)

Dehyphenate(isbn) == SelectSeq(isbn, LAMBDA c : c # "-")

\* the $a values of the 020 lines of a generated record
ISBNValues(marc) ==
    {marc.Fields[k].SubFields[1].Value :
        k \in {j \in 1..Len(marc.Fields) : marc.Fields[j].Tag = "020"}}

\* C3: metrics.compareField scores two non-empty values whose normalized
\* forms are equal 1.0 with method exact; CompareMARCFields scores an
\* expected ISBN against a record whose 020 holds the same ISBN with or
\* without hyphens 1.0 with method exact.
C3_ExactMatch ==
    /\ (/\ fieldMatch.Method # ""
        /\ expected # <<>> /\ actual # <<>>
        /\ normalizeForComparison(expected) = normalizeForComparison(actual))
          => (fieldMatch.Score = One /\ fieldMatch.Method = "exact")
    /\ (/\ comparison # <<>>
        /\ expectedFields.isbn # <<>>
        /\ ISBNValues(generatedMARC) # {}
        /\ \A v \in ISBNValues(generatedMARC) :
               Dehyphenate(v) = Dehyphenate(expectedFields.isbn))
          => (/\ comparison[1].ISBNMatch.Score = One
              /\ comparison[1].ISBNMatch.Method = "exact")

\* CompareMARCFields has compared the hyphenated ISBN "1-1" with a record
\* whose 020 holds "11"
C3_Witness ==
    /\ comparison # <<>>
    /\ expectedFields.isbn = <<"1", "-", "1">>
    /\ ISBNValues(generatedMARC) = {<<"1", "1">>}
    /\ comparison[1].ISBNMatch.Actual = <<"1", "1">>
    /\ comparison[1].ISBNMatch.Method = "exact"

\* a occurs in b as a contiguous run
IsSubstring(a, b) ==
    \E i \in 1..(Len(b) - Len(a) + 1) : SubSeq(b, i, i + Len(a) - 1) = a

\* two different strings of which one holds the other
SubstringCase(e, a) == e # a /\ (IsSubstring(e, a) \/ IsSubstring(a, e))

\* the lengths of the shorter and the longer of two strings
Shorter(e, a) == IF Len(e) < Len(a) THEN Len(e) ELSE Len(a)
Longer(e, a) == IF Len(e) < Len(a) THEN Len(a) ELSE Len(e)

HasWord(s) == \E i \in 1..Len(s) : IsWord(ToLowerChar(s[i]))

\* C5 (as the code has it): with an empty expected value and a non-empty
\* candidate, metrics.compareField gives 0.0 with method expected_missing;
\* metadata.compareField decides on the normalized values: 0.0 with class
\* no_reference when the expected value normalizes to nothing and the
\* candidate does not, 0.5 with class both_empty when the candidate
\* normalizes to nothing too; CompareRecords gives a weighted tag that only
\* the generated record holds the score 0.5 and lists it in ExtraFields.
C5_NoReference ==
    /\ (fieldMatch.Method # "" /\ expected = <<>> /\ actual # <<>>)
          => (fieldMatch.Score = Zero /\ fieldMatch.Method = "expected_missing")
    /\ (fieldComparison.Match # "" /\ ~HasWord(expected) /\ HasWord(actual))
          => (fieldComparison.Score = Zero /\ fieldComparison.Match = "no_reference")
    /\ (fieldComparison.Match # "" /\ expected = <<>> /\ actual # <<>> /\ ~HasWord(actual))
          => (fieldComparison.Score = Half /\ fieldComparison.Match = "both_empty")
    /\ recordsCompared =>
          \A t \in (WeightedTags(DefaultFieldWeights) \cap generatedTags) \ referenceTags :
              /\ result.FieldScores[t] = Half
              /\ \E k \in 1..Len(result.ExtraFields) : result.ExtraFields[k] = t
              /\ \A k \in 1..Len(result.MissingFields) : result.MissingFields[k] # t

\* CompareRecords has scored the weighted tag 650 that only the generated
\* record holds
C5_Witness ==
    /\ recordsCompared
    /\ "650" \in generatedTags \ referenceTags
    /\ result.FieldScores["650"] = Half
    /\ result.ExtraFields = <<"650">>

\* C5 as stated: the score is 0.0 in the two field comparators and for a
\* weighted tag that only the generated record holds
C5_Original ==
    /\ (fieldMatch.Method # "" /\ expected = <<>> /\ actual # <<>>)
          => fieldMatch.Score = Zero
    /\ (fieldComparison.Match # "" /\ expected = <<>> /\ actual # <<>>)
          => fieldComparison.Score = Zero
    /\ recordsCompared =>
          \A t \in (WeightedTags(DefaultFieldWeights) \cap generatedTags) \ referenceTags :
              result.FieldScores[t] = Zero

\* the methods a similarity-scored field of package metrics can carry
SimilarityMethods == {"fuzzy_high", "fuzzy_medium", "no_match"}

\* a match carries the band of its score under the thresholds hi and lo
InBands(score, method, hi, lo) ==
    /\ method = "fuzzy_high" <=> RGt(score, hi)
    /\ method = "fuzzy_medium" <=> (RGt(score, lo) /\ RLe(score, hi))
    /\ method = "no_match" <=> RLe(score, lo)

\* C6 (as the code has it): every comparator cuts the similarity into bands
\* with thresholds of its own.  CompareMARCRecords: fuzzy_high above 0.8,
\* fuzzy_medium above 0.5, no_match otherwise.  metrics.compareField:
\* fuzzy_high above 0.7, fuzzy_medium above 0.4, no_match otherwise.
\* metadata.compareField: fuzzy_high above 0.9, fuzzy_medium above 0.7,
\* fuzzy_low above 0.5, no_match otherwise.
C6_Bands ==
    /\ full.done =>
          \A t \in DOMAIN full.Fields :
              full.Fields[t].Method \in SimilarityMethods
                  => InBands(full.Fields[t].Score, full.Fields[t].Method,
                             Rat(8, 10), Rat(5, 10))
    /\ fieldMatch.Method \in SimilarityMethods
          => InBands(fieldMatch.Score, fieldMatch.Method, Rat(7, 10), Rat(4, 10))
    /\ fieldComparison.Match \in {"fuzzy_high", "fuzzy_medium", "fuzzy_low", "no_match"}
          => (/\ fieldComparison.Match = "fuzzy_high"
                     <=> RGt(fieldComparison.Score, Rat(9, 10))
              /\ fieldComparison.Match = "fuzzy_medium"
                     <=> (/\ RGt(fieldComparison.Score, Rat(7, 10))
                          /\ RLe(fieldComparison.Score, Rat(9, 10)))
              /\ fieldComparison.Match = "fuzzy_low"
                     <=> (/\ RGt(fieldComparison.Score, Rat(5, 10))
                          /\ RLe(fieldComparison.Score, Rat(7, 10)))
              /\ fieldComparison.Match = "no_match"
                     <=> RLe(fieldComparison.Score, Rat(5, 10)))

\* CompareMARCRecords has scored two titles that are half alike: the
\* similarity 0.5 is not above the lower threshold
C6_Witness ==
    /\ full.done
    /\ "245" \in DOMAIN full.Fields
    /\ full.Fields["245"].Score = Rat(5, 10)
    /\ full.Fields["245"].Method = "no_match"

\* C6 as stated: the three comparators share the thresholds 0.8 and 0.5,
\* with fuzzy_high as high, fuzzy_medium as medium, anything else as low
C6_Original ==
    /\ full.done =>
          \A t \in DOMAIN full.Fields :
              full.Fields[t].Method \in SimilarityMethods
                  => InBands(full.Fields[t].Score, full.Fields[t].Method,
                             Rat(8, 10), Rat(5, 10))
    /\ fieldMatch.Method \in SimilarityMethods
          => InBands(fieldMatch.Score, fieldMatch.Method, Rat(8, 10), Rat(5, 10))
    /\ fieldComparison.Match \in {"fuzzy_high", "fuzzy_medium", "fuzzy_low", "no_match"}
          => (/\ fieldComparison.Match = "fuzzy_high"
                     <=> RGt(fieldComparison.Score, Rat(8, 10))
              /\ fieldComparison.Match = "fuzzy_medium"
                     <=> (/\ RGt(fieldComparison.Score, Rat(5, 10))
                          /\ RLe(fieldComparison.Score, Rat(8, 10))))

\* the tags of the generated record before `added` joined it
previousTags ==
    TagsOf(SubSeq(generatedMARC.Fields, 1, Len(generatedMARC.Fields) - 1))

\* both comparisons ran before and after a field whose tag the reference
\* lacks joined the generated record
extraFieldAdded ==
    /\ added # NoField
    /\ added.Tag \notin referenceTags
    /\ full.done

\* the sum of the weights of a weight table
TotalWeight(weights) ==
    RSum(1..Len(weights), [k \in 1..Len(weights) |-> weights[k].Weight])

\* the weight of a tag in a weight table, 0 for a tag the table lacks
WeightOf(weights, tag) ==
    LET ks == {k \in 1..Len(weights) : weights[k].Tag = tag}
    IN  IF ks = {} THEN Zero ELSE weights[CHOOSE k \in ks : TRUE].Weight

\* C7 (as the code has it): a field added to the generated record under a
\* tag the reference lacks leaves both overall scores as they were when the
\* generated record already held that tag.  Under a tag new to the
\* generated record, CompareMARCRecords counts the tag as one more field of
\* score 0, so its overall score falls from s to s*n/(n+1) for n fields
\* before; CompareRecords leaves the score as it was for a tag without a
\* weight, and for a weighted tag it takes the field score from 1.0 to 0.5
\* and the overall score down by half the tag's share of the total weight.
C7_ExtraField ==
    extraFieldAdded =>
        /\ added.Tag \in previousTags => full.OverallScore = prevFull.OverallScore
        /\ added.Tag \notin previousTags =>
              RMul(full.OverallScore, Rat(Cardinality(DOMAIN prevFull.Fields) + 1, 1))
                  = RMul(prevFull.OverallScore,
                         Rat(Cardinality(DOMAIN prevFull.Fields), 1))
        /\ result.err = "nil" =>
              /\ (\/ added.Tag \in previousTags
                  \/ added.Tag \notin WeightedTags(DefaultFieldWeights))
                    => result.OverallScore = prevResult.OverallScore
              /\ (/\ added.Tag \notin previousTags
                  /\ added.Tag \in WeightedTags(DefaultFieldWeights))
                    => /\ prevResult.FieldScores[added.Tag] = One
                       /\ result.FieldScores[added.Tag] = Half
                       /\ RAdd(result.OverallScore,
                               RDiv(RMul(WeightOf(DefaultFieldWeights, added.Tag), Half),
                                    TotalWeight(DefaultFieldWeights)))
                              = prevResult.OverallScore

\* a 650 joined a generated record that had none, the reference has none
\* either, and both overall scores fell
C7_Witness ==
    /\ extraFieldAdded
    /\ result.err = "nil"
    /\ added.Tag = "650" /\ "650" \notin previousTags
    /\ RLt(full.OverallScore, prevFull.OverallScore)
    /\ RLt(result.OverallScore, prevResult.OverallScore)

\* C7 as stated: both overall scores stay as they were
C7_Original ==
    extraFieldAdded =>
        /\ full.OverallScore = prevFull.OverallScore
        /\ result.err = "nil" => result.OverallScore = prevResult.OverallScore

\* the sum over a weight table of weight times the score of the entry's tag
WeightedSum(weights, scores) ==
    RSum(1..Len(weights),
         [k \in 1..Len(weights) |-> RMul(weights[k].Weight, scores[weights[k].Tag])])

\* C8: FieldScores has an entry for exactly the tags of DefaultFieldWeights,
\* and the OverallScore of CompareRecords is the sum of weight times
\* FieldScores[tag] over the entries of DefaultFieldWeights, divided by the
\* sum of the weights.
C8_WeightedAverage ==
    recordsCompared =>
        /\ DOMAIN result.FieldScores = WeightedTags(DefaultFieldWeights)
        /\ result.OverallScore =
               RDiv(WeightedSum(DefaultFieldWeights, result.FieldScores),
                    TotalWeight(DefaultFieldWeights))

\* CompareRecords has scored a pair with a title that is nearly alike, a
\* 650 the generated record lacks, and tags that neither record holds
C8_Witness ==
    /\ recordsCompared
    /\ result.MissingFields = <<"650">>
    /\ result.FieldScores["650"] = Zero
    /\ RLt(Zero, result.FieldScores["245"]) /\ RLt(result.FieldScores["245"], One)
    /\ result.FieldScores["100"] = One
    /\ RLt(Zero, result.OverallScore) /\ RLt(result.OverallScore, One)

\* a weight table that corrupts the weighted sum: no entry, a total of zero,
\* or a negative weight
CorruptWeights(weights) ==
    \/ Len(weights) = 0
    \/ TotalWeight(weights) = Zero
    \/ \E k \in 1..Len(weights) : RLt(weights[k].Weight, Zero)

\* C9: whenever DefaultFieldWeights has no entry, a total weight of zero or
\* a negative weight, CompareRecords returns an error, and so it never
\* returns the overall score 0 with a nil error for a total weight of zero.
C9_WeightsValidated ==
    (result.err # "" /\ CorruptWeights(DefaultFieldWeights)) => result.err # "nil"

\* CompareRecords has returned a nil error and the overall score 0 for two
\* equal records under a table whose weights are all zero
C9_Witness ==
    /\ recordsCompared
    /\ Len(DefaultFieldWeights) > 0
    /\ TotalWeight(DefaultFieldWeights) = Zero
    /\ referenceTags # {} /\ generatedMARC = referenceMARC
    /\ result.OverallScore = Zero

\* a result that carries an error, and a metrics result whose comparison counts
Failed(res) == res.Error # ""
Scored(res) == res.Error = "" /\ res.Comparison # <<>>

\* the number of results of a sequence that carry an error
FailedCount(rs) == Cardinality({i \in 1..Len(rs) : Failed(rs[i])})

\* the number of metrics results of a sequence whose comparison counts
ScoredCount(rs) == Cardinality({i \in 1..Len(rs) : Scored(rs[i])})

\* the field statistics of an AggregateResult
FieldStatsOf(a) ==
    {a.TitleAccuracy, a.AuthorAccuracy, a.DateAccuracy, a.ISBNAccuracy,
     a.SubjectAccuracy}

\* the overall scores of the results that carry no error, in input order
RECURSIVE ScoresOfSuccesses(_)
ScoresOfSuccesses(rs) ==
    IF rs = <<>> THEN <<>>
    ELSE (IF Head(rs).Error = "" THEN <<Head(rs).ComparisonResult[1].OverallScore>>
          ELSE <<>>) \o ScoresOfSuccesses(Tail(rs))

\* the overall scores of the metrics results that carry a comparison and no error
RECURSIVE ScoresOfScored(_)
ScoresOfScored(rs) ==
    IF rs = <<>> THEN <<>>
    ELSE (IF Scored(Head(rs)) THEN <<Head(rs).Comparison[1].OverallScore>>
          ELSE <<>>) \o ScoresOfScored(Tail(rs))

RECURSIVE MatchScores(_, _)
MatchScores(rs, match) ==
    IF rs = <<>> THEN <<>>
    ELSE (IF Scored(Head(rs)) THEN <<Head(rs).Comparison[1][match].Score>>
          ELSE <<>>) \o MatchScores(Tail(rs), match)

\* the arithmetic mean of a non-empty sequence of scores
MeanOf(scores) == RDiv(RSumSeq(scores), Rat(Len(scores), 1))

\* each field statistic of an AggregateResult with the match it is built from
StatsAndMatch ==
    { <<"TitleAccuracy", "TitleMatch">>, <<"AuthorAccuracy", "AuthorMatch">>,
      <<"DateAccuracy", "DateMatch">>, <<"ISBNAccuracy", "ISBNMatch">>,
      <<"SubjectAccuracy", "SubjectMatch">> }

\* C11: once some record without an error carries an overall score, the
\* OverallAccuracy of AggregateEvaluationResults is the arithmetic mean of the
\* overall scores of the records without an error, and the AverageScore of
\* each field is the mean of that field's scores over the same records.
C11_Means ==
    (agg.TotalRecords # -1 /\ ScoredCount(results) > 0) =>
        /\ agg.OverallAccuracy = MeanOf(ScoresOfScored(results))
        /\ \A p \in StatsAndMatch :
              agg[p[1]].AverageScore = MeanOf(MatchScores(results, p[2]))

\* AggregateEvaluationResults has aggregated two results without an error,
\* of which only the first carries a comparison: every field average is the
\* score of the first, the overall accuracy is half its overall score
C11_Witness ==
    /\ Len(results) = 2
    /\ Scored(results[1])
    /\ results[2].Error = "" /\ results[2].Comparison = <<>>
    /\ agg.TotalRecords = 2 /\ agg.SuccessCount = 2
    /\ RGt(results[1].Comparison[1].OverallScore, Zero)
    /\ agg.OverallAccuracy = RDiv(results[1].Comparison[1].OverallScore, Rat(2, 1))
    /\ \A p \in StatsAndMatch :
          agg[p[1]].AverageScore = results[1].Comparison[1][p[2]].Score

\* C12: when no record succeeded (the input is empty or every result carries
\* an error) every aggregate value is zero: the overall accuracy, the average
\* processing time and every field's average of AggregateEvaluationResults,
\* and the average, median, minimum and maximum score of calculateSummary,
\* which then holds no field accuracy and has not panicked.
C12_ZeroOnNoSuccess ==
    /\ (agg.TotalRecords # -1 /\ FailedCount(results) = Len(results)) =>
          /\ agg.SuccessCount = 0
          /\ agg.OverallAccuracy = Zero
          /\ agg.AverageProcessingTime = 0
          /\ \A st \in FieldStatsOf(agg) : st.AverageScore = Zero /\ st.Scores = <<>>
    /\ (summary.TotalRecords # -1 /\ FailedCount(evalResults) = Len(evalResults)) =>
          /\ summary.SuccessfulEvals = 0
          /\ ~summary.panicked
          /\ summary.AverageScore = Zero /\ summary.MedianScore = Zero
          /\ summary.MinScore = Zero /\ summary.MaxScore = Zero
          /\ DOMAIN summary.FieldAccuracies = {}

\* calculateSummary has summarized two results that both carry an error, one
\* of them together with a comparison whose overall score is not zero
C12_Witness ==
    /\ Len(evalResults) = 2
    /\ FailedCount(evalResults) = 2
    /\ \E i \in 1..2 :
          /\ evalResults[i].ComparisonResult # <<>>
          /\ RGt(evalResults[i].ComparisonResult[1].OverallScore, Zero)
    /\ summary.TotalRecords = 2 /\ summary.FailedEvals = 2
    /\ summary.AverageScore = Zero

\* executeRun has computed the summary
summarized == tool = "executeRun" /\ mainPc \in {"save", "done"}

\* an item whose processing cannot succeed: it has no image, its generation
\* fails, or one of the two records does not parse
Fails(item) ==
    \/ item.TitlePagePath = "" /\ item.CoverImagePath = ""
    \/ item.generated.err
    \/ ~item.ReferenceMARC.valid
    \/ ~item.generated.marc.valid

failingItems == {i \in 1..Len(dataset) : Fails(dataset[i])}

\* the results the workers have sent so far, collected or not
published == {evalResults[k] : k \in 1..Len(evalResults)}
             \cup {resultsChan[k] : k \in 1..Len(resultsChan)}

\* a result as processItem owes it to item i: a non-empty Error if the item
\* fails, the comparison of CompareRecords otherwise
RecordsItem(res, i) ==
    /\ res.ID = i
    /\ res.Error # "" <=> i \in failingItems
    /\ res.Error = "" =>
          /\ res.ComparisonResult # <<>>
          /\ res.ComparisonResult[1].err = "nil"

\* C13: a failure while processing one item does not abort the batch. A
\* worker that has run processItem has published a result of its item, with
\* a non-empty Error when the item fails (no image, generation error,
\* comparison error); and once executeRun has summarized, the results hold
\* a result of every item, the failing ones with an Error and the others
\* with their comparison, and FailedEvals is the number of failing items.
C13_FailureIsolated ==
    tool = "executeRun" =>
        /\ \A i \in 1..Len(dataset) :
              pc[i] \in {"release", "done", "exited"} =>
                  \E res \in published : RecordsItem(res, i)
        /\ summarized =>
              /\ \A i \in 1..Len(dataset) :
                    \E k \in 1..Len(evalResults) : RecordsItem(evalResults[k], i)
              /\ ~summary.panicked
              /\ summary.TotalRecords = Len(dataset)
              /\ summary.FailedEvals = Cardinality(failingItems)
              /\ summary.SuccessfulEvals = Len(dataset) - Cardinality(failingItems)

\* executeRun has finished on three items of which the first fails in
\* generation, the second in the comparison and the third is compared; the
\* result of the third was collected between the two failures
C13_Witness ==
    /\ tool = "executeRun" /\ mainPc = "done"
    /\ Len(dataset) = 3
    /\ failingItems = {1, 2}
    /\ dataset[1].generated.err /\ ~dataset[2].ReferenceMARC.valid
    /\ evalResults[2].ID = 3 /\ evalResults[2].Error = ""
    /\ summary.FailedEvals = 2 /\ summary.SuccessfulEvals = 1

\* C14: calculateSummary runs only after every worker has published its
\* result: once executeRun has summarized, every worker has exited, the
\* channel is closed and empty, and the collected results hold exactly one
\* result of each dataset item, none missing and none twice, which is the
\* set the summary counts.
C14_CompleteSet ==
    summarized =>
        /\ \A i \in 1..Len(dataset) : pc[i] = "exited"
        /\ wg = 0 /\ closed /\ resultsChan = <<>>
        /\ Len(evalResults) = Len(dataset)
        /\ \A i \in 1..Len(dataset) :
              Cardinality({k \in 1..Len(evalResults) : evalResults[k].ID = i}) = 1
        /\ summary.TotalRecords = Len(dataset)

\* executeRun has summarized three items with two workers at a time, and
\* the result of the last item was the first to be collected
C14_Witness ==
    /\ summarized
    /\ concurrency = 2
    /\ Len(dataset) = 3
    /\ evalResults[1].ID = 3
    /\ summary.TotalRecords = 3

\* the result of every dataset item, in dataset order
InOrder == [i \in 1..Len(dataset) |-> processItem(dataset[i])]

\* the fields of an EvaluationSummary
Statistics(sm) ==
    [TotalRecords |-> sm.TotalRecords, SuccessfulEvals |-> sm.SuccessfulEvals,
     FailedEvals |-> sm.FailedEvals, AverageScore |-> sm.AverageScore,
     MedianScore |-> sm.MedianScore, MinScore |-> sm.MinScore,
     MaxScore |-> sm.MaxScore, FieldAccuracies |-> sm.FieldAccuracies]

\* C15: the summary of executeRun does not depend on the order in which the
\* workers finish: whatever the interleaving, the counts, the average, the
\* median, the minimum, the maximum and the field accuracies are those of
\* the results taken in dataset order, and so is the float64 stored as the
\* average score.
C15_OrderIndependent ==
    summarized =>
        /\ Statistics(summary) = Statistics(calculateSummary(InOrder))
        /\ averageScore64 = Float64Average(calculateSummary(InOrder).scores)

\* executeRun has summarized three compared items whose results were not
\* collected in dataset order: the statistics agree in exact arithmetic with
\* those of the dataset order, the float64 average does not
C15_Witness ==
    /\ summarized
    /\ Len(dataset) = 3 /\ failingItems = {}
    /\ evalResults # InOrder
    /\ Statistics(summary) = Statistics(calculateSummary(InOrder))
    /\ averageScore64 # Float64Average(calculateSummary(InOrder).scores)

\* C16: the results executeRun collects, summarizes and saves keep the order
\* of the dataset: once it has summarized, result k is the result of dataset
\* item k, and so it is in the results it saved.
C16_OrderPreserved ==
    /\ summarized =>
          \A k \in 1..Len(evalResults) : evalResults[k].ID = dataset[k].ID
    /\ (tool = "executeRun" /\ resultsFile # <<>>) =>
          \A k \in 1..Len(resultsFile[1].Results) :
              resultsFile[1].Results[k].ID = dataset[k].ID

\* executeRun has saved the results of two items with one worker at a time,
\* the result of the second item first
C16_Witness ==
    /\ tool = "executeRun" /\ mainPc = "done"
    /\ concurrency = 1
    /\ Len(dataset) = 2
    /\ resultsFile # <<>>
    /\ resultsFile[1].Results[1].ID = dataset[2].ID
    /\ resultsFile[1].Results[2].ID = dataset[1].ID

\* the two values a field comparator was given
comparedValues == {expected, actual}

\* C17: normalization is idempotent for both normalizers: for each value a
\* comparator has normalized, metrics.normalizeForComparison and
\* metadata.normalizeText return their own result unchanged, also when
\* punctuation stands between two spaces.
C17_Idempotent ==
    /\ fieldMatch.Method # "" =>
          \A s \in comparedValues :
              normalizeForComparison(normalizeForComparison(s)) = normalizeForComparison(s)
    /\ fieldComparison.Match # "" =>
          \A s \in comparedValues :
              normalizeText(normalizeText(s)) = normalizeText(s)

\* both comparators have compared "x - 1": normalizeForComparison returns
\* "x 1" and keeps it, normalizeText returns "x  1" with two spaces and
\* turns that into "x 1"
C17_Witness ==
    /\ fieldMatch.Method # "" /\ fieldComparison.Match # ""
    /\ expected = <<"x", " ", "-", " ", "1">>
    /\ normalizeForComparison(expected) = <<"x", " ", "1">>
    /\ normalizeForComparison(<<"x", " ", "1">>) = <<"x", " ", "1">>
    /\ normalizeText(expected) = <<"x", " ", " ", "1">>
    /\ normalizeText(<<"x", " ", " ", "1">>) = <<"x", " ", "1">>

\* C18: similarity is symmetric: calculateSimilarity (both versions),
\* stringSimilarity and the three levenshteinDistance functions return the
\* same value for (a, b) and for (b, a).
C18_Symmetric ==
    similarity.done => similarity.forward = similarity.backward

\* two different strings of different lengths, neither empty, were compared
\* in both orders, and the ratio lies strictly between 0 and 1
C18_Witness ==
    /\ similarity.done
    /\ expected = <<"x", "1">> /\ actual = <<"x", "-", "1">>
    /\ similarity.forward.calculate = Rat(2, 3)
    /\ similarity.backward.calculate = Rat(2, 3)
    /\ similarity.forward.positional = Rat(1, 3)
    /\ similarity.backward.string = Rat(2, 3)
    /\ similarity.backward.evaluationDistance = 1

\* what stringSimilarity compares: its argument trimmed and lower-cased
Normalized(s) == ToLower(TrimSpace(s))

\* the claim for one ordered pair: sims are the values computed for (a, b)
UnitSimilarities(a, b, sims) ==
    /\ InUnit(sims.calculate) /\ InUnit(sims.positional) /\ InUnit(sims.string)
    /\ a = b => sims.calculate = One /\ sims.positional = One
    /\ Normalized(a) = Normalized(b) => sims.string = One
    /\ (a = <<>>) # (b = <<>>) => sims.calculate = Zero /\ sims.positional = Zero
    /\ (Normalized(a) = <<>>) # (Normalized(b) = <<>>) => sims.string = Zero

\* C19: every similarity value lies in [0,1], is exactly 1 when the two
\* normalized strings are identical, and is 0 when exactly one of them is
\* empty, for both versions of calculateSimilarity (whose arguments are the
\* normalized strings) and for stringSimilarity (which normalizes itself).
C19_UnitRange ==
    similarity.done =>
        /\ UnitSimilarities(expected, actual, similarity.forward)
        /\ UnitSimilarities(actual, expected, similarity.backward)

\* "X" against "x ": equal once trimmed and lower-cased, so stringSimilarity
\* returns 1, while the raw strings share no character and both versions of
\* calculateSimilarity return 0
C19_Witness ==
    /\ similarity.done
    /\ expected = <<"X">> /\ actual = <<"x", " ">>
    /\ similarity.forward.string = One
    /\ similarity.forward.calculate = Zero
    /\ similarity.forward.positional = Zero

\* the weighted tags both records hold, and the tags of a list of diffs
comparedTags == WeightedTags(DefaultFieldWeights) \cap referenceTags \cap generatedTags
DiffTags(diffs) == {diffs[i].Tag : i \in 1..Len(diffs)}

\* the text of the first field of a record that carries the tag
FirstText(record, tag) ==
    LET i == CHOOSE k \in 1..Len(record.Fields) :
                 /\ record.Fields[k].Tag = tag
                 /\ \A j \in 1..(k - 1) : record.Fields[j].Tag # tag
    IN  fieldToString(record.Fields[i])

\* every entry of FieldDifferences carries the unnormalized texts of the
\* field it compared, and the similarity that became the field's score
CarriesRawTexts ==
    \A i \in 1..Len(result.FieldDifferences) :
        LET diff == result.FieldDifferences[i]
        IN  /\ diff.Tag \in comparedTags
            /\ diff.Reference = FirstText(referenceMARC, diff.Tag)
            /\ diff.Generated = FirstText(generatedMARC, diff.Tag)
            /\ diff.Similarity = result.FieldScores[diff.Tag]

FirstField(record, tags) ==
    LET i == CHOOSE k \in 1..Len(record.Fields) :
                 /\ record.Fields[k].Tag \in tags
                 /\ \A j \in 1..(k - 1) : record.Fields[j].Tag \notin tags
    IN  record.Fields[i]

\* what parseMARCFields returns for the first line of a tag on its own
FirstParsed(record, tag) == parseMARCFields(<<FirstField(record, {tag})>>, <<>>)[tag]

\* C21: when a tag repeats in a record, the value compared for it is its
\* first occurrence: in the diffs of CompareRecords, in the title, date and
\* ISBN that CompareMARCFields extracts, and in the Expected and Actual
\* values of CompareMARCRecords.
C21_FirstOccurrence ==
    /\ recordsCompared =>
          \A i \in 1..Len(result.FieldDifferences) :
              LET diff == result.FieldDifferences[i]
              IN  /\ diff.Reference = fieldToString(FirstField(referenceMARC, {diff.Tag}))
                  /\ diff.Generated = fieldToString(FirstField(generatedMARC, {diff.Tag}))
    /\ comparison # <<>> =>
          /\ "245" \in generatedTags =>
                comparison[1].TitleMatch.Actual
                    = ExtractTitle(<<FirstField(generatedMARC, {"245"})>>)
          /\ "020" \in generatedTags =>
                comparison[1].ISBNMatch.Actual
                    = ExtractISBN(<<FirstField(generatedMARC, {"020"})>>)
          /\ "260" \in generatedTags =>
                comparison[1].DateMatch.Actual
                    = ExtractDate(<<FirstField(generatedMARC, {"260", "264"})>>)
    /\ (tool = "CompareRecords" /\ full.done) =>
          /\ \A t \in referenceTags :
                full.Fields[t].Expected = FirstParsed(referenceMARC, t)
          /\ \A t \in generatedTags :
                full.Fields[t].Actual = FirstParsed(generatedMARC, t)

\* the reference holds two 245 fields with different titles: CompareRecords
\* compared the first, CompareMARCRecords the second
C21_Witness ==
    /\ recordsCompared /\ full.done
    /\ referenceMARC.Fields = << DataField("245", "a", Rep("x", 9)),
                                 DataField("245", "a", Rep("x", 4) \o Rep("1", 5)) >>
    /\ generatedMARC.Fields = << DataField("245", "a", Rep("x", 9)) >>
    /\ result.FieldDifferences[1].Reference = <<"$", "a", " ">> \o Rep("x", 9)
    /\ result.FieldScores["245"] = One
    /\ full.Fields["245"].Expected = <<"$", "a">> \o Rep("x", 4) \o Rep("1", 5)
    /\ full.Fields["245"].Score = Rat(1, 2)

\* the items of the calls that returned no error, in call order
RECURSIVE SuccessfulItems(_)
SuccessfulItems(calls) ==
    IF calls = <<>> THEN <<>>
    ELSE LET earlier == SuccessfulItems(SubSeq(calls, 1, Len(calls) - 1))
             last == calls[Len(calls)]
         IN  IF last.err = "nil" THEN Append(earlier, last.item) ELSE earlier

\* dataset.json as call i left it
FileAfter(i) == IF i = Len(appendCalls) THEN datasetFile ELSE appendCalls[i + 1].before

\* C24: after any sequence of AppendDatasetItem calls, dataset.json decodes
\* to exactly the items of the successful calls, in call order; a call that
\* fails because the existing file cannot be decoded returns an error and
\* leaves the file unchanged.
C24_AppendsKept ==
    tool = "AppendDatasetItem" =>
        /\ SuccessfulItems(appendCalls) # <<>> =>
              /\ LoadDataset(datasetFile).err = "nil"
              /\ LoadDataset(datasetFile).Items = SuccessfulItems(appendCalls)
        /\ \A i \in 1..Len(appendCalls) :
              (appendCalls[i].before.exists /\ LoadDataset(appendCalls[i].before).err # "nil")
                  => /\ appendCalls[i].err # "nil"
                     /\ FileAfter(i) = appendCalls[i].before

\* two calls without any file system failure, the second with a
\* ReferenceMARC that holds a byte that is no valid UTF-8: both succeed, and
\* the file decodes to an item whose ReferenceMARC holds U+FFFD instead
C24_Witness ==
    /\ tool = "AppendDatasetItem"
    /\ Len(appendCalls) = 2
    /\ \A i \in 1..2 : appendCalls[i].fault = "none" /\ appendCalls[i].err = "nil"
    /\ appendCalls[1].item = DatasetItem(<<"1">>, <<"<", "x", "\"">>)
    /\ appendCalls[2].item = DatasetItem(<<"2">>, <<"x", InvalidByte>>)
    /\ LoadDataset(datasetFile).err = "nil"
    /\ LoadDataset(datasetFile).Items[1] = appendCalls[1].item
    /\ LoadDataset(datasetFile).Items[2].ReferenceMARC = <<"x", ReplacementRune>>

\* the entries of fetchLog
examined == {fetchLog[i] : i \in 1..Len(fetchLog)}

\* C22: parsing a raw record returns an error, and no record, when the
\* input is empty, when its leader cannot be decoded, or when it holds no
\* field at all, on the MARCXML path and on the binary path.
C22_ParseErrors ==
    tool = "executeFetch" =>
        \A e \in examined :
            (e.data.empty \/ ~e.data.leaderValid \/ e.data.Fields = <<>>)
                => /\ e.outcome = "parse error"
                   /\ fetch_parseMARCRecord(e.data).record = <<>>

\* a MARCXML record whose leader marc.NewLeader rejects was parsed into a
\* record with the zero leader and went on to the filters
C22_Witness ==
    /\ tool = "executeFetch"
    /\ \E e \in examined :
          /\ e.data.format = "xml" /\ e.data.readable /\ ~e.data.leaderValid
          /\ e.data.Fields # <<>>
          /\ fetch_parseMARCRecord(e.data).err = "nil"
          /\ fetch_parseMARCRecord(e.data).record[1].Leader = ZeroLeader
          /\ e.outcome = "not a book with ISBN"

\* what the documentation of eval fetch promises of a saved record, read
\* off the harvested metadata itself
tagsOf(data) == {data.Fields[i].Tag : i \in 1..Len(data.Fields)}
hasNonEmpty(data, tag, code) ==
    \E i \in 1..Len(data.Fields) :
        /\ data.Fields[i].Tag = tag
        /\ \E k \in 1..Len(data.Fields[i].SubFields) :
              /\ data.Fields[i].SubFields[k].Code = code
              /\ Len(data.Fields[i].SubFields[k].Value) > 0
isSuppressed(data) ==
    \E i \in 1..Len(data.Fields) :
        /\ data.Fields[i].Tag = "999"
        /\ \E k \in 1..Len(data.Fields[i].SubFields) :
              data.Fields[i].SubFields[k] = Sub("i", <<"1">>)
Wanted(data) ==
    /\ data.leader.Type \in {"a", "t"} /\ data.leader.BibLevel = "m"
    /\ hasNonEmpty(data, "020", "a")
    /\ data.leader.Status # "d"
    /\ ~isSuppressed(data)
    /\ tagsOf(data) \cap {excludeTags[k] : k \in 1..Len(excludeTags)} = {}

\* C23: every record executeFetch appends is a book with a non-empty 020$a
\* that is not deleted, not suppressed and carries no excluded tag; at most
\* `limit` records are appended, and once `limit` records are saved no
\* further record is examined, in this batch or a later one.
C23_OnlyWantedSaved ==
    tool = "executeFetch" =>
        /\ \A i \in 1..Len(appendCalls) :
              \E e \in examined :
                  /\ appendCalls[i].item = DatasetItem(e.data.id, BodyText(e.data))
                  /\ Wanted(e.data)
        /\ Len(appendCalls) <= limit
        /\ savedCount = Len(appendCalls)
        /\ \A e \in examined : e.saved < limit
        /\ recordCount = Len(fetchLog)

\* limit 1, two batches of two records: the first record was saved, the
\* callback returned at the second and at once in the second batch, and the
\* harvest is over with one record examined
C23_Witness ==
    /\ tool = "executeFetch"
    /\ limit = 1
    /\ Len(harvest[1]) = 2 /\ Len(harvest[2]) = 2
    /\ FetchOutcome(harvest[1][2], excludeTags) = "saved"
    /\ batchNo = 3
    /\ Len(appendCalls) = 1 /\ appendCalls[1].err = "nil"
    /\ appendCalls[1].item.ID = harvest[1][1].id
    /\ recordCount = 1 /\ savedCount = 1

\* the workers whose processItem call is in progress, and those that hold
\* a place in the semaphore
inProgress == {i \in 1..Len(dataset) : pc[i] = "processItem"}
holders == {i \in 1..Len(dataset) : pc[i] \in {"processItem", "release"}}

\* C26: during executeRun with concurrency c >= 1, never more than c
\* processItem calls are in progress, whatever the interleaving: a call runs
\* only while its worker holds one of the c places of the semaphore.
C26_PoolSize ==
    (tool = "executeRun" /\ concurrency >= 1) =>
        /\ Cardinality(inProgress) <= concurrency
        /\ Cardinality(holders) = semaphore
        /\ semaphore <= concurrency

\* concurrency 2 and three workers started: two calls are in progress and
\* the third worker waits at the semaphore
C26_Witness ==
    /\ tool = "executeRun"
    /\ concurrency = 2
    /\ Len(dataset) = 3
    /\ Cardinality(inProgress) = 2
    /\ \E i \in 1..3 : pc[i] = "acquire"
    /\ semaphore = 2

\* the strings one insertion, deletion or substitution away from s, no
\* longer than MaxStrLen
OneEdit(s) ==
    { SubSeq(s, 1, i - 1) \o SubSeq(s, i + 1, Len(s)) : i \in 1..Len(s) }
    \cup { [s EXCEPT ![i] = c] : i \in 1..Len(s), c \in Alphabet }
    \cup { t \in { SubSeq(s, 1, i) \o <<c>> \o SubSeq(s, i + 1, Len(s)) :
                       i \in 0..Len(s), c \in Alphabet } : Len(t) <= MaxStrLen }

\* the strings at most k edits away from the strings of S
RECURSIVE Within(_, _)
Within(S, k) ==
    IF k = 0 THEN S
    ELSE LET nearer == Within(S, k - 1)
         IN  nearer \cup UNION {OneEdit(s) : s \in nearer}

Ball == [a \in StringsUpTo(MaxStrLen) |-> [k \in 0..MaxStrLen |-> Within({a}, k)]]

\* the least number of single-character edits that turn a into b
EditDistance(a, b) ==
    CHOOSE k \in 0..MaxStrLen :
        /\ b \in Ball[a][k]
        /\ k = 0 \/ b \notin Ball[a][k - 1]

LongerLen(a, b) == IF Len(a) > Len(b) THEN Len(a) ELSE Len(b)

\* 1 - distance / max(len(a), len(b))
FromDistance(a, b) == Rat(LongerLen(a, b) - EditDistance(a, b), LongerLen(a, b))

short == StringsUpTo(MaxStrLen)

\* C25: levenshteinDistance(a, b) is the least number of insertions,
\* deletions and substitutions that turn a into b, and the similarity of
\* two distinct non-empty strings is 1 - levenshteinDistance(a, b) /
\* max(len(a), len(b)) in every similarity implementation: both versions
\* of calculateSimilarity, and stringSimilarity on its normalized arguments.
C25_EditDistance ==
    (similarity.done /\ expected \in short /\ actual \in short) =>
        /\ similarity.forward.metricsDistance = EditDistance(expected, actual)
        /\ similarity.forward.metadataDistance = EditDistance(expected, actual)
        /\ similarity.forward.evaluationDistance = EditDistance(expected, actual)
        /\ (expected # actual /\ expected # <<>> /\ actual # <<>>) =>
              /\ similarity.forward.calculate = FromDistance(expected, actual)
              /\ similarity.forward.positional = FromDistance(expected, actual)
        /\ (Normalized(expected) # Normalized(actual)
                /\ Normalized(expected) # <<>> /\ Normalized(actual) # <<>>) =>
              similarity.forward.string
                  = FromDistance(Normalized(expected), Normalized(actual))

\* "x1" against "1": one deletion apart, so the three distances are 1 and
\* the similarities from the distance are 1/2, while the position-counting
\* calculateSimilarity finds no matching position and returns 0
C25_Witness ==
    /\ similarity.done
    /\ expected = <<"x", "1">> /\ actual = <<"1">>
    /\ EditDistance(expected, actual) = 1
    /\ similarity.forward.metricsDistance = 1
    /\ similarity.forward.evaluationDistance = 1
    /\ similarity.forward.calculate = Rat(1, 2)
    /\ similarity.forward.string = Rat(1, 2)
    /\ similarity.forward.positional = Zero

\* the value holds no letter and no digit
NoComparableContent(s) == \A i \in 1..Len(s) : ~IsWord(s[i])

\* C27: in metrics.compareField, when the expected value normalizes to a
\* non-empty string and the actual value is not empty but holds no letter
\* or digit, the score is 0.0: no credit through the exact or the substring
\* rule.
C27_NoCreditForNoContent ==
    (/\ fieldMatch.Method # ""
     /\ normalizeForComparison(expected) # <<>>
     /\ actual # <<>> /\ NoComparableContent(actual))
        => fieldMatch.Score = Zero

\* "x" was compared against "-": the hyphen normalizes to the empty string,
\* which every string contains, and the substring rule gave 0.8
C27_Witness ==
    /\ expected = <<"x">> /\ actual = <<"-">>
    /\ normalizeForComparison(actual) = <<>>
    /\ fieldMatch.Method = "substring"
    /\ fieldMatch.Score = Rat(4, 5)

\* C28: CompareRecords of a parseable record against itself yields
\* OverallScore exactly 1.0, the field score 1.0 for every weighted tag, and
\* empty MissingFields and ExtraFields, whichever weighted tags the record
\* holds and however often.
C28_SelfComparison ==
    (recordsCompared /\ referenceMARC = generatedMARC) =>
        /\ result.OverallScore = One
        /\ DOMAIN result.FieldScores = WeightedTags(DefaultFieldWeights)
        /\ \A t \in WeightedTags(DefaultFieldWeights) : result.FieldScores[t] = One
        /\ result.MissingFields = <<>>
        /\ result.ExtraFields = <<>>
        /\ result.weightedScore = result.totalWeight

\* a record with two different 245 fields was compared against itself: the
\* tag was compared, most weighted tags are absent on both sides, and the
\* score is 1
C28_Witness ==
    /\ recordsCompared
    /\ referenceMARC = generatedMARC
    /\ referenceMARC.Fields = << DataField("245", "a", Rep("x", 9)),
                                 DataField("245", "a", Rep("x", 4) \o Rep("1", 5)) >>
    /\ DiffTags(result.FieldDifferences) = {"245"}
    /\ result.FieldScores["245"] = One
    /\ result.FieldScores["100"] = One
    /\ result.OverallScore = One

(***************************************************************************)
(* C29                                                                     *)
(***************************************************************************)

\* the results whose ComparisonResult the loop of calculateSummary and the
\* loop of printTextReport read: those they do not skip for their Error
Dereferenced(rs) == { i \in 1..Len(rs) : rs[i].Error = "" }

\* a result with exactly one of an error and a comparison
ErrorOrComparison(res) == (res.Error # "") # (res.ComparisonResult # <<>>)

\* C29: every result processItem returns carries either a non-empty Error or
\* a comparison, never both and never neither; so in the results of a run,
\* sent, collected or saved, every result whose comparison calculateSummary
\* and the report read has one, and the summary is computed without a nil
\* dereference
C29_ErrorOrComparison ==
    /\ \A i \in 1..Len(resultsChan) : ErrorOrComparison(resultsChan[i])
    /\ \A i \in 1..Len(evalResults) : ErrorOrComparison(evalResults[i])
    /\ \A i \in Dereferenced(evalResults) : evalResults[i].ComparisonResult # <<>>
    /\ \A n \in 1..Len(resultsFile) :
           /\ \A i \in 1..Len(resultsFile[n].Results) :
                  ErrorOrComparison(resultsFile[n].Results[i])
           /\ \A i \in Dereferenced(resultsFile[n].Results) :
                  resultsFile[n].Results[i].ComparisonResult # <<>>
    /\ ~summary.panicked

C29_Witness ==
    /\ mainPc = "done"
    /\ resultsFile # <<>>
    /\ \E i, j, k \in 1..Len(resultsFile[1].Results) :
           /\ resultsFile[1].Results[i].Error = "no image available for cataloging"
           /\ resultsFile[1].Results[j].Error = "failed to generate MARC"
           /\ resultsFile[1].Results[k].ComparisonResult # <<>>
    /\ Dereferenced(resultsFile[1].Results) # {}
    /\ summary.SuccessfulEvals = 1 /\ summary.FailedEvals = 2

(***************************************************************************)
(* C30                                                                     *)
(***************************************************************************)

\* the workers of the run that wait at the send to the semaphore
waiting == { i \in 1..Len(dataset) : pc[i] = "acquire" }

\* C30: executeRun terminates for every dataset and every value of
\* --concurrency: the workers finish, the results channel is closed, the
\* summary is computed and the results are saved
C30_Terminates ==
    <>( /\ mainPc = "done"
        /\ \A i \in 1..Len(dataset) : pc[i] = "exited"
        /\ closed
        /\ resultsFile # <<>> )

\* --concurrency 0 on a dataset that is not empty: every worker waits at
\* the send to the unbuffered semaphore, whose only receives are the
\* deferred ones of workers that have sent; the closing goroutine waits for
\* the workers and executeRun for the close, and no step is left
C30_Witness ==
    /\ concurrency = 0
    /\ Len(dataset) = MaxItems
    /\ mainPc = "collect"
    /\ waiting = 1..Len(dataset)
    /\ wg = Len(dataset)
    /\ ~closed
    /\ resultsChan = <<>> /\ evalResults = <<>> /\ resultsFile = <<>>
    /\ ~ENABLED NextRun

====
